---------------------------- MODULE Spec2Model ----------------------------
(***************************************************************************)
(* A model of GeminiDesigner's orchestration code:                         *)
(*   - the service layer (services/geminiService.ts): the lazily created   *)
(*     API client, the edit and generate render paths, the two plan-driven *)
(*     async generators and the two retry entry points;                    *)
(*   - the sequencing layer (components/AlbumView.tsx, App.tsx): the album *)
(*     state, a user turn (handleSendPrompt) and a variation retry         *)
(*     (handleRetryVariation), each a closure over the album it was        *)
(*     rendered with.                                                      *)
(* Remote calls are requests in `net`; the answer of the remote model is   *)
(* a nondeterministic choice from a bounded set of response shapes.        *)
(***************************************************************************)
EXTENDS Integers, Sequences, FiniteSets, TLC

(***************************************************************************)
(* Bounds of the model.                                                    *)
(***************************************************************************)
\* longest variations list a plan response carries
MaxVariations == 3
\* generator frames (turns of the sequencing layer, calls of a service caller)
MaxTurns == 1
\* render-call frames (variation retries, direct calls of a retry entry point)
MaxRetries == 2

\* longest response text, in characters, extractJson is applied to
MaxTextLen == 4
MaxParts == 3
MaxPlanned == 4

Gens == 1..MaxTurns
Calls == 1..MaxRetries

(***************************************************************************)
(* JavaScript values.  A value is a record [type, val]; strings are        *)
(* sequences of chunks, the chunk " " being white space.                   *)
(***************************************************************************)
Undefined == [type |-> "undefined", val |-> <<>>]
Null == [type |-> "null", val |-> <<>>]
Str(chunks) == [type |-> "string", val |-> chunks]
Num(n) == [type |-> "number", val |-> n]
Arr(items) == [type |-> "array", val |-> items]
Obj(fields) == [type |-> "object", val |-> fields]

\* JavaScript truthiness
Truthy(v) ==
  CASE v.type = "string" -> v.val # <<>>
    [] v.type = "number" -> v.val # 0
    [] v.type \in {"undefined", "null"} -> FALSE
    [] OTHER -> TRUE

\* a || b
Or(a, b) == IF Truthy(a) THEN a ELSE b

\* a property read of null or undefined throws a TypeError
Nullish(v) == v.type \in {"undefined", "null"}

\* String.prototype.trim on the chunks of a string
RECURSIVE TrimLeft(_)
TrimLeft(s) == IF s # <<>> /\ Head(s) = " " THEN TrimLeft(Tail(s)) ELSE s

RECURSIVE TrimRight(_)
TrimRight(s) ==
  IF s # <<>> /\ s[Len(s)] = " " THEN TrimRight(SubSeq(s, 1, Len(s) - 1)) ELSE s

Trim(s) == TrimRight(TrimLeft(s))

\* ${v} inside a template literal
ToChunks(v) ==
  CASE v.type = "string" -> v.val
    [] v.type = "number" -> <<"<number>">>
    [] v.type = "undefined" -> <<"undefined">>
    [] v.type = "null" -> <<"null">>
    [] OTHER -> <<"[object]">>

\* the messages of the errors the code throws (a message is a sequence of chunks)
NoError == <<>>
TypeErrorMsg == <<"TypeError">>
NetworkErrorMsg == <<"fetch failed">>
ApiKeyMsg == <<"API_KEY environment variable not set. Please configure it to use the AI features.">>
PromptRequiredMsg == <<"A valid, non-empty prompt is required for image editing.">>
ImageRequiredMsg == <<"At least one image is required for editing.">>
InvalidPlanMsg == <<"Failed to create a valid generation plan.">>
NoJsonMsg == <<"Could not find a valid JSON object or array in the response.">>
SyntaxErrorMsg == <<"SyntaxError">>
BlockedMsg(reason) == <<"Image generation was blocked. Reason: ", reason>>
NoCandidatesMsg == <<"The API did not return any candidates. The request may have been blocked or failed.">>
NoPartsMsg == <<"The API returned a candidate with no content parts.">>
NoImageMsg == <<"The API did not return an image. The response may have been blocked.">>
ReturnedTextMsg(text) == <<"The AI failed to generate an image and returned this message: ", text>>
NoImagesMsg == <<"The API did not return any images. The request may have been blocked or failed.">>

VARIABLES
  apiKey,   \* process.env.API_KEY is set
  ai,       \* the module-level client is created
  net,      \* the remote calls in flight
  gen,      \* the generator frames
  rcall,    \* the frames of retryImageGeneration / retryNewImageGeneration
  album,    \* App's album state, as last published
  turn,     \* the handleSendPrompt closures
  retry,    \* the handleRetryVariation closures
  reply,    \* a response text of the planning model
  extracted \* what extractJson has made of it

vars == <<apiKey, ai, net, gen, rcall, album, turn, retry, reply, extracted>>
svcVars == <<apiKey, ai, net, gen, rcall>>
uiVars == <<album, turn, retry>>
fnVars == <<reply, extracted>>


(***************************************************************************)
(* The API client (getAiClient) and the remote model.                      *)
(***************************************************************************)
\* mutant: the client is built without looking at the key
getAiClientIgnoresKey == [threw |-> FALSE, ai |-> TRUE]

\* getAiClient: throws when no client is cached and the key is absent
getAiClient == [threw |-> ~ai /\ ~apiKey, ai |-> ai \/ apiKey]

NoRequest == [op |-> "none"]

\* client.models.generateContent on the image-editing model
EditRequest(images, prompt) ==
  [op |-> "editContent", model |-> "gemini-2.5-flash-image", images |-> images,
   prompt |-> prompt, aspectRatio |-> Undefined, numberOfImages |-> 1]

\* client.models.generateImages
GenerateRequest(prompt, aspectRatio) ==
  [op |-> "generateImages", model |-> "imagen-4.0-generate-001", images |-> Undefined,
   prompt |-> prompt, aspectRatio |-> aspectRatio, numberOfImages |-> 1]

\* client.models.generateContent on the planning model
PlanRequest(fn, images, useSearch) ==
  [op |-> "plan", model |-> "gemini-2.5-flash", images |-> images,
   schema |-> ~useSearch, searchTool |-> useSearch, by |-> fn]

RenderOps == {"editContent", "generateImages"}

Sent(owner, request) == [owner |-> owner, request |-> request]

\* what a render call gives its caller: an image, or the message of the error thrown
Image(data) == [error |-> NoError, image |-> data]
Fail(message) == [error |-> message, image |-> ""]

\* mutant: only the first part is looked at for inline data
returnedImageFirstPartOnly(parts) ==
  IF parts = <<>> THEN "" ELSE parts[1].data

\* the scan of the first candidate's parts: the last inline image, the last text
RECURSIVE returnedImage(_)
returnedImage(parts) ==
  IF parts = <<>> THEN ""
  ELSE IF parts[Len(parts)].data # "" THEN parts[Len(parts)].data
  ELSE returnedImage(SubSeq(parts, 1, Len(parts) - 1))

RECURSIVE returnedText(_)
returnedText(parts) ==
  IF parts = <<>> THEN ""
  ELSE IF parts[Len(parts)].data = "" /\ parts[Len(parts)].text # "" THEN parts[Len(parts)].text
  ELSE returnedText(SubSeq(parts, 1, Len(parts) - 1))

\* editImageInternal after the remote call has answered
editImageResult(response) ==
  IF response.rejects THEN Fail(NetworkErrorMsg)
  ELSE IF Len(response.candidates) = 0
  THEN IF response.blockReason # "" THEN Fail(BlockedMsg(response.blockReason))
       ELSE Fail(NoCandidatesMsg)
  ELSE LET candidate == response.candidates[1] IN
       IF ~candidate.hasParts THEN Fail(NoPartsMsg)
       ELSE IF returnedImage(candidate.parts) # "" THEN Image(returnedImage(candidate.parts))
       ELSE IF returnedText(candidate.parts) # ""
       THEN Fail(ReturnedTextMsg(returnedText(candidate.parts)))
       ELSE Fail(NoImageMsg)

\* retryNewImageGeneration after the remote call has answered
generateImagesResult(response) ==
  IF response.rejects THEN Fail(NetworkErrorMsg)
  ELSE IF Len(response.generatedImages) = 0
  THEN IF response.blockReason # "" THEN Fail(BlockedMsg(response.blockReason))
       ELSE Fail(NoImagesMsg)
  ELSE Image(response.generatedImages[1])

RenderResult(request, response) ==
  IF request.op = "editContent" THEN editImageResult(response)
  ELSE generateImagesResult(response)

\* the prompt and image checks that open editImageInternal
InvalidPrompt(prompt) ==
  ~Truthy(prompt) \/ prompt.type # "string" \/ Trim(prompt.val) = <<>>

NoImages(images) == ~Truthy(images) \/ Len(images.val) = 0

\* mutant: the client is fetched before the arguments are checked
editImageInternalClientFirst(images, prompt) ==
  IF getAiClient.threw
  THEN [error |-> ApiKeyMsg, ai |-> ai, request |-> NoRequest]
  ELSE IF InvalidPrompt(prompt)
  THEN [error |-> PromptRequiredMsg, ai |-> getAiClient.ai, request |-> NoRequest]
  ELSE IF NoImages(images)
  THEN [error |-> ImageRequiredMsg, ai |-> getAiClient.ai, request |-> NoRequest]
  ELSE [error |-> NoError, ai |-> getAiClient.ai, request |-> EditRequest(images, prompt)]

\* editImageInternal up to its remote call: the error thrown, or the request sent
editImageInternal(images, prompt) ==
  IF InvalidPrompt(prompt)
  THEN [error |-> PromptRequiredMsg, ai |-> ai, request |-> NoRequest]
  ELSE IF NoImages(images)
  THEN [error |-> ImageRequiredMsg, ai |-> ai, request |-> NoRequest]
  ELSE IF getAiClient.threw
  THEN [error |-> ApiKeyMsg, ai |-> ai, request |-> NoRequest]
  ELSE [error |-> NoError, ai |-> getAiClient.ai, request |-> EditRequest(images, prompt)]

\* retryNewImageGeneration up to its remote call
retryNewImageGeneration(prompt, aspectRatio) ==
  IF getAiClient.threw
  THEN [error |-> ApiKeyMsg, ai |-> ai, request |-> NoRequest]
  ELSE [error |-> NoError, ai |-> getAiClient.ai,
        request |-> GenerateRequest(prompt, aspectRatio)]

\* retryImageGeneration only forwards to editImageInternal
retryImageGeneration(images, prompt) == editImageInternal(images, prompt)

(***************************************************************************)
(* The answers of the remote model, as bounded sets of response shapes.    *)
(***************************************************************************)
EditOk ==
  [rejects |-> FALSE, blockReason |-> "",
   candidates |-> <<[hasParts |-> TRUE, parts |-> <<[data |-> "IMG", text |-> ""]>>]>>]
EditEmpty == [rejects |-> FALSE, blockReason |-> "", candidates |-> <<>>]
GenerateOk == [rejects |-> FALSE, blockReason |-> "", generatedImages |-> <<"IMG">>]
GenerateEmpty == [rejects |-> FALSE, blockReason |-> "", generatedImages |-> <<>>]

\* one answer that carries an image and one that does not, per render path
RenderResponses(op) ==
  IF op = "editContent" THEN {EditOk, EditEmpty} ELSE {GenerateOk, GenerateEmpty}
RenderAnswers == [op \in RenderOps |-> RenderResponses(op)]

\* every shape of answer, up to MaxParts parts in the first candidate: a part
\* holds inline data, a text, both or neither; the prompt feedback holds a
\* block reason or none; a second candidate may follow the first
PartKinds == [data : {"", "IMG", "IMG2"}, text : {"", "T", "T2"}]
PartsLists == UNION {[1..n -> PartKinds] : n \in 0..MaxParts}
BlockReasons == {"", "SAFETY"}
FirstCandidates ==
  {[hasParts |-> FALSE, parts |-> <<>>]} \cup {[hasParts |-> TRUE, parts |-> ps] : ps \in PartsLists}
CandidateLists ==
  {<<>>} \cup {<<c>> : c \in FirstCandidates} \cup {<<c, EditOk.candidates[1]>> : c \in FirstCandidates}
EditResponses ==
  [rejects : {FALSE}, blockReason : BlockReasons, candidates : CandidateLists]
GenerateResponses ==
  [rejects : {FALSE}, blockReason : BlockReasons,
   generatedImages : {<<>>, <<"IMG">>, <<"IMG2", "IMG">>}]
AllRenderAnswers ==
  [op \in RenderOps |-> IF op = "editContent" THEN EditResponses ELSE GenerateResponses]

\* the entries a plan's variations list may hold: VariationSpec objects whose
\* prompt is absent, empty, blank or a text, and null
PromptValues == {Undefined, Str(<<>>), Str(<<" ">>), Str(<<"P">>)}
EntryKinds == PromptValues \cup {Null}
TitleOf(i) == Str(<<"T", ToString(i)>>)
DescriptionOf(i) == Str(<<"D", ToString(i)>>)
VariationSpec(i, prompt) ==
  Obj([title |-> TitleOf(i), description |-> DescriptionOf(i), modifiedPrompt |-> prompt])
EntryOf(i, kind) == IF kind = Null THEN Null ELSE VariationSpec(i, kind)

\* the lists of at most MaxVariations entries, entry i of a kind in `kinds`
VariationLists(kinds) ==
  UNION {{[i \in 1..n |-> EntryOf(i, k[i])] : k \in [1..n -> kinds]} : n \in 0..MaxVariations}

PlanObject(text, variations) ==
  Obj([textResponse |-> text, variations |-> variations,
       followUpSuggestions |-> Arr(<<Str(<<"next">>)>>)])

\* what JSON.parse(extractJson(text)) can give for a plan response
ParsedPlans(kinds) ==
  {PlanObject(text, variations) :
     text \in {Undefined, Str(<<>>), Str(<<"hi">>)},
     variations \in {Undefined} \cup {Arr(s) : s \in VariationLists(kinds)}}

PlanResponses(kinds) ==
  {[kind |-> k, plan |-> Undefined] : k \in {"rejects", "noJson", "syntaxError"}}
    \cup {[kind |-> "json", plan |-> p] : p \in ParsedPlans(kinds)}

(***************************************************************************)
(* The async generators generateNewImages and generateImageEdits.  A frame *)
(* is one run: its arguments, its position, the events it has yielded and  *)
(* how many of them its consumer has taken (a generator suspended at a     *)
(* yield resumes when the consumer asks for the next event).               *)
(***************************************************************************)
IdleGen ==
  [fn |-> "none", images |-> Undefined, userPrompt |-> Undefined, useWebSearch |-> FALSE,
   aspectRatio |-> Undefined, pc |-> "idle", plan |-> Undefined, groundingMetadata |-> Undefined,
   i |-> 0, events |-> <<>>, consumed |-> 0, error |-> NoError, outcomes |-> <<>>,
   planCalls |-> 0, renderCalls |-> 0]

Progress(message) == [type |-> "progress", message |-> message]
PlanEvent(plan, groundingMetadata) ==
  [type |-> "plan", plan |-> plan, groundingMetadata |-> groundingMetadata]
VariationEvent(variation) == [type |-> "variation", variation |-> variation]

Yield(f, event, pc) == [f EXCEPT !.events = Append(@, event), !.pc = pc]
Throw(f, message) == [f EXCEPT !.pc = "failed", !.error = message]
Suspended(f) == f.consumed < Len(f.events)

\* Date.now().toString() + Math.random(): unique per record created
VariationId(g, i) == <<"v", g, i>>

\* the record of a rendered variation (lines 232-238, 347-353)
newVariation(g, f, variation, mimeType, data) ==
  [id |-> VariationId(g, f.i), title |-> variation.val.title,
   description |-> variation.val.description, imageUrl |-> <<mimeType, data>>,
   isLoading |-> FALSE, isError |-> FALSE, errorMessage |-> NoError,
   retryPayload |-> Undefined]

\* the record of a failed variation (lines 242-254, 362-374)
errorVariation(g, f, variation, message, retryPayload) ==
  [id |-> VariationId(g, f.i), title |-> variation.val.title,
   description |-> variation.val.description, imageUrl |-> <<>>,
   isLoading |-> FALSE, isError |-> TRUE, errorMessage |-> message,
   retryPayload |-> retryPayload]

\* the prompt of one variation: [threw, prompt]
\*   generateNewImages:  variation.modifiedPrompt || userPrompt
\*   generateImageEdits: (variation.modifiedPrompt || "").trim()
\*                         ? variation.modifiedPrompt
\*                         : `${userPrompt}, in the style of: ${variation.title}`
promptForGeneration(fn, variation, userPrompt) ==
  IF Nullish(variation) THEN [threw |-> TRUE, prompt |-> Undefined]
  ELSE IF fn = "generateNewImages"
  THEN [threw |-> FALSE, prompt |-> Or(variation.val.modifiedPrompt, userPrompt)]
  ELSE LET p == Or(variation.val.modifiedPrompt, Str(<<>>)) IN
       IF p.type # "string" THEN [threw |-> TRUE, prompt |-> Undefined]
       ELSE IF Trim(p.val) # <<>>
       THEN [threw |-> FALSE, prompt |-> variation.val.modifiedPrompt]
       ELSE [threw |-> FALSE,
             prompt |-> Str(ToChunks(userPrompt) \o <<", in the style of: ">>
                              \o ToChunks(variation.val.title))]

\* mutant: the payload stores the planned prompt, not the prompt that was sent
retryPayloadPlannedPrompt(f, variation) ==
  IF f.fn = "generateNewImages"
  THEN [images |-> Undefined, prompt |-> variation.val.modifiedPrompt,
        aspectRatio |-> f.aspectRatio]
  ELSE [images |-> f.images, prompt |-> variation.val.modifiedPrompt,
        aspectRatio |-> Undefined]

\* the retry payload an error variation carries
retryPayload(f, variation) ==
  IF f.fn = "generateNewImages"
  THEN [images |-> Undefined, prompt |-> Or(variation.val.modifiedPrompt, f.userPrompt),
        aspectRatio |-> f.aspectRatio]
  ELSE [images |-> f.images,
        prompt |-> promptForGeneration(f.fn, variation, f.userPrompt).prompt,
        aspectRatio |-> Undefined]

\* mutant: the loop body has no try/catch, the error leaves the generator
CaughtRethrown(g, f, variation, message) == Throw(f, message)

\* the catch block of the loop: the error becomes an error variation, unless
\* building that variation throws itself
Caught(g, f, variation, message) ==
  IF promptForGeneration(f.fn, variation, f.userPrompt).threw
  THEN Throw(f, TypeErrorMsg)
  ELSE Yield(f, VariationEvent(errorVariation(g, f, variation, message,
                                              retryPayload(f, variation))),
             "yieldedVariation")

Variations(f) == f.plan.val.variations.val

\* mutant: the render calls of all remaining variations are started at once
\* (Promise.all over the list) instead of one per pass
LoopStepUnawaited(g, f) ==
  [frame |-> [f EXCEPT !.pc = "awaitRender", !.renderCalls = @ + 1],
   sent |-> {Sent(<<"gen", g>>,
                  IF f.fn = "generateNewImages"
                  THEN GenerateRequest(promptForGeneration(f.fn, Variations(f)[k],
                                                           f.userPrompt).prompt,
                                       f.aspectRatio)
                  ELSE EditRequest(f.images,
                                   promptForGeneration(f.fn, Variations(f)[k],
                                                       f.userPrompt).prompt)) :
             k \in f.i..Len(Variations(f))},
   ai |-> ai]

\* mutant: a pass first repeats the render call of the variation before it
\* when that call has failed
LoopStepRepeatsFailed(g, f) ==
  LET k == IF f.i > 1 /\ ~f.outcomes[Len(f.outcomes)] /\ f.renderCalls < f.i
           THEN f.i - 1 ELSE f.i
  IN IF k > Len(Variations(f))
     THEN [frame |-> [f EXCEPT !.pc = "done"], sent |-> {}, ai |-> ai]
     ELSE [frame |-> [f EXCEPT !.i = k, !.pc = "awaitRender", !.renderCalls = @ + 1],
           sent |-> {Sent(<<"gen", g>>,
                          IF f.fn = "generateNewImages"
                          THEN GenerateRequest(promptForGeneration(f.fn, Variations(f)[k],
                                                                   f.userPrompt).prompt,
                                               f.aspectRatio)
                          ELSE EditRequest(f.images,
                                           promptForGeneration(f.fn, Variations(f)[k],
                                                               f.userPrompt).prompt))},
           ai |-> ai]

\* one pass of the loop body up to its await, for variation f.i:
\* the frame after it, the request sent (if any) and the client state
LoopStep(g, f) ==
  IF f.i > Len(Variations(f))
  THEN [frame |-> [f EXCEPT !.pc = "done"], sent |-> {}, ai |-> ai]
  ELSE LET variation == Variations(f)[f.i]
           p == promptForGeneration(f.fn, variation, f.userPrompt)
           call == IF f.fn = "generateNewImages"
                   THEN retryNewImageGeneration(p.prompt, f.aspectRatio)
                   ELSE editImageInternal(f.images, p.prompt)
       IN IF p.threw
          THEN [frame |-> Caught(g, f, variation, TypeErrorMsg), sent |-> {}, ai |-> ai]
          ELSE IF call.error # NoError
          THEN [frame |-> Caught(g, [f EXCEPT !.outcomes = Append(@, FALSE)],
                                 variation, call.error),
                sent |-> {}, ai |-> ai]
          ELSE [frame |-> [f EXCEPT !.pc = "awaitRender", !.renderCalls = @ + 1],
                sent |-> {Sent(<<"gen", g>>, call.request)}, ai |-> call.ai]

\* mutant: the check forgets the empty list
ValidPlanAllowsEmpty(plan) == Truthy(plan.val.textResponse) /\ plan.val.variations.type = "array"

\* the plan check of lines 220 and 330
ValidPlan(plan) ==
  /\ Truthy(plan.val.textResponse)
  /\ plan.val.variations.type = "array"
  /\ Len(plan.val.variations.val) # 0

\* mutant: the plan request of either generator follows the web-search flag
RequestPlanSearches(g, f) ==
  [frame |-> [f EXCEPT !.pc = "awaitPlan", !.planCalls = @ + 1],
   sent |-> {Sent(<<"gen", g>>, PlanRequest(f.fn, f.images, f.useWebSearch))},
   ai |-> TRUE]

\* the plan request is sent
RequestPlan(g, f) ==
  [frame |-> [f EXCEPT !.pc = "awaitPlan", !.planCalls = @ + 1],
   sent |-> {Sent(<<"gen", g>>,
                  PlanRequest(f.fn, f.images, f.fn = "generateImageEdits" /\ f.useWebSearch))},
   ai |-> TRUE]

\* mutant: the web-search progress notice is sent on the new-image path too
BeginSearchesAlways(g, f) ==
  IF getAiClient.threw THEN [frame |-> Throw(f, ApiKeyMsg), sent |-> {}, ai |-> ai]
  ELSE IF f.useWebSearch
  THEN [frame |-> Yield(f, Progress("Searching the web for inspiration..."), "search1"),
        sent |-> {}, ai |-> TRUE]
  ELSE RequestPlan(g, f)

\* the generator's body from its start to its first yield or await
Begin(g, f) ==
  IF getAiClient.threw THEN [frame |-> Throw(f, ApiKeyMsg), sent |-> {}, ai |-> ai]
  ELSE IF f.fn = "generateImageEdits" /\ f.useWebSearch
  THEN [frame |-> Yield(f, Progress("Searching the web for inspiration..."), "search1"),
        sent |-> {}, ai |-> TRUE]
  ELSE RequestPlan(g, f)

\* the caller creates the generator and asks for its first event
generate(g, fn, images, userPrompt, useWebSearch, aspectRatio) ==
  LET r == Begin(g, [IdleGen EXCEPT !.fn = fn, !.images = images,
                       !.userPrompt = userPrompt, !.useWebSearch = useWebSearch,
                       !.aspectRatio = aspectRatio])
  IN /\ gen[g].pc = "idle"
     /\ gen' = [gen EXCEPT ![g] = r.frame]
     /\ net' = net \cup r.sent
     /\ ai' = r.ai

\* the generator's body from the yield it is suspended at to its next yield or
\* await
Resume(g, f) ==
  CASE f.pc = "search1" -> [frame |-> [f EXCEPT !.pc = "delay1"], sent |-> {}, ai |-> ai]
    [] f.pc = "search2" -> [frame |-> [f EXCEPT !.pc = "delay2"], sent |-> {}, ai |-> ai]
    [] f.pc = "yieldedPlan" ->
         [frame |-> Yield(f, Progress(IF f.fn = "generateNewImages"
                                      THEN "Generating your new images..."
                                      ELSE "Remixing your image with new ideas..."),
                          "yieldedProgress"),
          sent |-> {}, ai |-> ai]
    [] f.pc = "yieldedProgress" -> LoopStep(g, [f EXCEPT !.i = 1])
    [] f.pc = "yieldedVariation" -> LoopStep(g, [f EXCEPT !.i = @ + 1])

\* the consumer has taken the last event: the generator runs on to its next
\* yield or await
GenResume(g) ==
  LET f == gen[g]
      r == Resume(g, f)
  IN /\ f.pc \in {"search1", "search2", "yieldedPlan", "yieldedProgress", "yieldedVariation"}
     /\ ~Suspended(f)
     /\ gen' = [gen EXCEPT ![g] = r.frame]
     /\ net' = net \cup r.sent
     /\ ai' = r.ai
     /\ UNCHANGED <<apiKey, rcall>>

\* a pacing delay of the web-search path has elapsed
GenTimer(g) ==
  LET f == gen[g]
      r == IF f.pc = "delay1"
           THEN [frame |-> Yield(f, Progress("Analyzing results to craft prompts..."), "search2"),
                 sent |-> {}, ai |-> ai]
           ELSE RequestPlan(g, f)
  IN /\ f.pc \in {"delay1", "delay2"}
     /\ gen' = [gen EXCEPT ![g] = r.frame]
     /\ net' = net \cup r.sent
     /\ UNCHANGED <<apiKey, ai, rcall>>

\* mutant: a valid plan is kept but no plan event is yielded
planReturnedSilent(f, response) ==
  CASE response.kind = "rejects" -> Throw(f, NetworkErrorMsg)
    [] response.kind = "noJson" -> Throw(f, NoJsonMsg)
    [] response.kind = "syntaxError" -> Throw(f, SyntaxErrorMsg)
    [] OTHER -> IF ~(Truthy(response.plan.val.textResponse)
                       /\ response.plan.val.variations.type = "array"
                       /\ Len(response.plan.val.variations.val) # 0)
                THEN Throw([f EXCEPT !.plan = response.plan], InvalidPlanMsg)
                ELSE [f EXCEPT !.plan = response.plan, !.pc = "yieldedPlan"]

\* the plan request has answered: extractJson, JSON.parse, the plan check
planReturned(f, response) ==
  CASE response.kind = "rejects" -> Throw(f, NetworkErrorMsg)
    [] response.kind = "noJson" -> Throw(f, NoJsonMsg)
    [] response.kind = "syntaxError" -> Throw(f, SyntaxErrorMsg)
    [] OTHER -> IF ~ValidPlan(response.plan)
                THEN Throw([f EXCEPT !.plan = response.plan], InvalidPlanMsg)
                ELSE Yield([f EXCEPT !.plan = response.plan],
                           PlanEvent(response.plan, f.groundingMetadata), "yieldedPlan")

GenPlanReturn(g, responses) ==
  /\ gen[g].pc = "awaitPlan"
  /\ \E m \in net :
       /\ m.owner = <<"gen", g>> /\ m.request.op = "plan"
       /\ net' = net \ {m}
  /\ \E response \in responses :
       gen' = [gen EXCEPT ![g] = planReturned(gen[g], response)]
  /\ UNCHANGED <<apiKey, ai, rcall>>

\* the render call of variation f.i has answered
renderReturned(g, f, request, response) ==
  LET result == RenderResult(request, response)
      variation == Variations(f)[f.i]
      mimeType == IF f.fn = "generateNewImages" THEN "image/png"
                  ELSE f.images.val[1].mimeType
  IN IF result.error = NoError
     THEN Yield([f EXCEPT !.outcomes = Append(@, TRUE)],
                VariationEvent(newVariation(g, f, variation, mimeType, result.image)),
                "yieldedVariation")
     ELSE Caught(g, [f EXCEPT !.outcomes = Append(@, FALSE)], variation, result.error)

GenRenderReturn(g) ==
  /\ gen[g].pc = "awaitRender"
  /\ \E m \in net :
       /\ m.owner = <<"gen", g>> /\ m.request.op \in RenderOps
       /\ \E response \in RenderResponses(m.request.op) :
            gen' = [gen EXCEPT ![g] = renderReturned(g, gen[g], m.request, response)]
       /\ net' = net \ {m}
  /\ UNCHANGED <<apiKey, ai, rcall>>

(***************************************************************************)
(* The retry entry points retryImageGeneration and retryNewImageGeneration:*)
(* a frame is one call.                                                    *)
(***************************************************************************)
IdleCall ==
  [fn |-> "none", images |-> Undefined, prompt |-> Undefined, aspectRatio |-> Undefined,
   pc |-> "idle", response |-> Undefined, image |-> "", returned |-> Undefined,
   error |-> NoError, calls |-> 0]

\* the entry point is called: it throws, or its remote call is in flight
renderCall(r, fn, images, prompt, aspectRatio) ==
  LET c == IF fn = "retryImageGeneration" THEN retryImageGeneration(images, prompt)
           ELSE retryNewImageGeneration(prompt, aspectRatio)
      f == [IdleCall EXCEPT !.fn = fn, !.images = images, !.prompt = prompt,
                            !.aspectRatio = aspectRatio]
  IN /\ rcall[r].pc = "idle"
     /\ rcall' = [rcall EXCEPT ![r] =
                    IF c.error # NoError THEN [f EXCEPT !.pc = "threw", !.error = c.error]
                    ELSE [f EXCEPT !.pc = "awaiting", !.calls = 1]]
     /\ net' = net \cup (IF c.error # NoError THEN {} ELSE {Sent(<<"retry", r>>, c.request)})
     /\ ai' = c.ai

\* the remote call of an entry point has answered
CallReturn(r, answers) ==
  /\ rcall[r].pc = "awaiting"
  /\ \E m \in net :
       /\ m.owner = <<"retry", r>> /\ m.request.op \in RenderOps
       /\ \E response \in answers[m.request.op] :
            LET result == RenderResult(m.request, response) IN
            rcall' = [rcall EXCEPT ![r] =
                        IF result.error = NoError
                        THEN [@ EXCEPT !.pc = "returned", !.response = response,
                                       !.image = result.image]
                        ELSE [@ EXCEPT !.pc = "threw", !.response = response,
                                       !.error = result.error]]
       /\ net' = net \ {m}
  /\ UNCHANGED <<apiKey, ai, gen>>

(***************************************************************************)
(* A caller of the service's exported functions, one call at a time, with  *)
(* arguments drawn from bounded sets.                                      *)
(***************************************************************************)
SourceImage == [base64Data |-> "SRC", mimeType |-> "image/jpeg"]
CallerImages == {Arr(<<>>), Arr(<<SourceImage>>)}
CallerUserPrompts == {Str(<<>>), Str(<<"p">>)}
CallerPrompts == {Undefined, Num(5), Str(<<>>), Str(<<" ">>), Str(<<"P">>)}
CallerAspectRatios == {Str(<<"16:9">>)}

\* the caller makes a call when it has made none, or when its calls so far
\* have all ended on the missing-credential error
ServiceIdle ==
  /\ \A g \in Gens :
       gen[g].pc = "idle" \/ (gen[g].pc = "failed" /\ gen[g].error = ApiKeyMsg)
  /\ \A r \in Calls :
       rcall[r].pc = "idle" \/ (rcall[r].pc = "threw" /\ rcall[r].error = ApiKeyMsg)

CallGenerateNewImages(g) ==
  \E userPrompt \in CallerUserPrompts, useWebSearch \in BOOLEAN,
     aspectRatio \in CallerAspectRatios :
    /\ ServiceIdle
    /\ generate(g, "generateNewImages", Undefined, userPrompt, useWebSearch, aspectRatio)
    /\ UNCHANGED <<apiKey, rcall>>

CallGenerateImageEdits(g) ==
  \E images \in CallerImages, userPrompt \in CallerUserPrompts, useWebSearch \in BOOLEAN,
     aspectRatio \in CallerAspectRatios :
    /\ ServiceIdle
    /\ generate(g, "generateImageEdits", images, userPrompt, useWebSearch, aspectRatio)
    /\ UNCHANGED <<apiKey, rcall>>

\* the caller's `for await`: it takes the next event
CallerNext(g) ==
  /\ Suspended(gen[g])
  /\ gen' = [gen EXCEPT ![g].consumed = @ + 1]
  /\ UNCHANGED <<apiKey, ai, net, rcall>>

CallRetryImageGeneration(r) ==
  \E images \in CallerImages \cup {Undefined}, prompt \in CallerPrompts :
    /\ ServiceIdle
    /\ renderCall(r, "retryImageGeneration", images, prompt, Undefined)
    /\ UNCHANGED <<apiKey, gen>>

CallRetryNewImageGeneration(r) ==
  \E prompt \in CallerPrompts, aspectRatio \in CallerAspectRatios :
    /\ ServiceIdle
    /\ renderCall(r, "retryNewImageGeneration", Undefined, prompt, aspectRatio)
    /\ UNCHANGED <<apiKey, gen>>

(***************************************************************************)
(* The single-call operations editImageWithMask, applyRepositionEdit and   *)
(* segmentObjectsInImage.  A frame is one call, as for the retry entry     *)
(* points; none of them checks its arguments.                              *)
(***************************************************************************)
ImageOps == {"editImageWithMask", "applyRepositionEdit"}
AuxOps == ImageOps \cup {"segmentObjectsInImage"}

AuxRequest(fn) ==
  [op |-> fn,
   model |-> IF fn \in ImageOps THEN "gemini-2.5-flash-image" ELSE "gemini-2.5-flash",
   images |-> Arr(IF fn = "editImageWithMask"
                  THEN <<SourceImage, [base64Data |-> "MASK", mimeType |-> "image/png"]>>
                  ELSE <<SourceImage>>),
   prompt |-> Str(<<"P">>),
   schema |-> fn = "segmentObjectsInImage"]

NoCandidatesFor(fn) ==
  IF fn = "editImageWithMask"
  THEN <<"The API did not return any candidates for the masked edit.">>
  ELSE <<"The API did not return any candidates for the reposition edit.">>
NoImageFor(fn) ==
  IF fn = "editImageWithMask"
  THEN <<"The API did not return an image for the masked edit.">>
  ELSE <<"The API did not return an image for the reposition edit.">>

\* mutant: the scan stops at the first part that holds inline data
RECURSIVE returnedImagesFirstOnly(_)
returnedImagesFirstOnly(parts) ==
  IF parts = <<>> THEN <<>>
  ELSE IF Head(parts).data # "" THEN <<Head(parts).data>>
  ELSE returnedImagesFirstOnly(Tail(parts))

\* returnedImages.push(part.inlineData.data) over the parts, in order
RECURSIVE returnedImages(_)
returnedImages(parts) ==
  IF parts = <<>> THEN <<>>
  ELSE (IF Head(parts).data # "" THEN <<Head(parts).data>> ELSE <<>>)
         \o returnedImages(Tail(parts))

\* what a single-call operation gives its caller
Gives(value) == [error |-> NoError, returned |-> value]
Throws(message) == [error |-> message, returned |-> Undefined]

\* editImageWithMask and applyRepositionEdit after the remote call has answered
imageListResult(fn, response) ==
  IF response.rejects THEN Throws(NetworkErrorMsg)
  ELSE IF Len(response.candidates) = 0 THEN Throws(NoCandidatesFor(fn))
  ELSE IF ~response.candidates[1].hasParts THEN Throws(NoPartsMsg)
  ELSE IF Len(returnedImages(response.candidates[1].parts)) > 0
  THEN Gives(Arr(returnedImages(response.candidates[1].parts)))
  ELSE Throws(NoImageFor(fn))

\* segmentObjectsInImage after the remote call has answered: extractJson,
\* JSON.parse, result.objects || []
segmentObjectsResult(response) ==
  CASE response.kind = "rejects" -> Throws(NetworkErrorMsg)
    [] response.kind = "noJson" -> Throws(NoJsonMsg)
    [] response.kind = "syntaxError" -> Throws(SyntaxErrorMsg)
    [] OTHER -> IF Nullish(response.result) THEN Throws(TypeErrorMsg)
                ELSE IF response.result.type # "object" THEN Gives(Arr(<<>>))
                ELSE Gives(Or(response.result.val.objects, Arr(<<>>)))

AuxResult(fn, response) ==
  IF fn \in ImageOps THEN imageListResult(fn, response) ELSE segmentObjectsResult(response)

\* what JSON.parse(extractJson(text)) can give for an object-detection answer
DetectedObject == Obj([id |-> Str(<<"1">>), label |-> Str(<<"car">>)])
SegmentResults ==
  {Obj([objects |-> o]) :
     o \in {Undefined, Null, Arr(<<>>), Arr(<<DetectedObject>>),
            Arr(<<DetectedObject, DetectedObject>>)}}
    \cup {Null, Arr(<<DetectedObject>>)}
SegmentResponses ==
  {[kind |-> k, result |-> Undefined] : k \in {"rejects", "noJson", "syntaxError"}}
    \cup {[kind |-> "json", result |-> x] : x \in SegmentResults}

AuxAnswers(fn) == IF fn \in ImageOps THEN EditResponses ELSE SegmentResponses

\* a single-call operation is called: it throws, or its remote call is in flight
CallAux(r) ==
  \E fn \in AuxOps :
    /\ ServiceIdle
    /\ rcall[r].pc = "idle"
    /\ rcall' = [rcall EXCEPT ![r] =
                   IF getAiClient.threw
                   THEN [IdleCall EXCEPT !.fn = fn, !.pc = "threw", !.error = ApiKeyMsg]
                   ELSE [IdleCall EXCEPT !.fn = fn, !.pc = "awaiting", !.calls = 1]]
    /\ net' = net \cup (IF getAiClient.threw THEN {}
                        ELSE {Sent(<<"retry", r>>, AuxRequest(fn))})
    /\ ai' = getAiClient.ai
    /\ UNCHANGED <<apiKey, gen>>

\* the remote call of a single-call operation has answered
AuxReturn(r) ==
  /\ rcall[r].pc = "awaiting"
  /\ \E m \in net :
       /\ m.owner = <<"retry", r>> /\ m.request.op \in AuxOps
       /\ \E response \in AuxAnswers(m.request.op) :
            LET result == AuxResult(m.request.op, response) IN
            rcall' = [rcall EXCEPT ![r] =
                        IF result.error = NoError
                        THEN [@ EXCEPT !.pc = "returned", !.response = response,
                                       !.returned = result.returned]
                        ELSE [@ EXCEPT !.pc = "threw", !.response = response,
                                       !.error = result.error]]
       /\ net' = net \ {m}
  /\ UNCHANGED <<apiKey, ai, gen>>

(***************************************************************************)
(* The sequencing layer: App's album state and AlbumView's handlers.  A    *)
(* handler is a closure: the `album` it reads is the album of the render   *)
(* it was created in, whatever has been published since.                   *)
(***************************************************************************)
\* handleCreateNewChat: the album of a new chat session
NewAlbum == [chatHistory |-> <<>>, galleryImages |-> <<>>, referenceImageUrl |-> <<>>]

\* a chat entry; the fields an entry does not set are undefined
Message(id, role) ==
  [id |-> id, role |-> role, text |-> Undefined, imageUrls |-> <<>>, isLoading |-> FALSE,
   isError |-> FALSE, statusMessage |-> Undefined, variations |-> Undefined,
   followUpSuggestions |-> Undefined, sourceImageUrl |-> <<>>,
   groundingMetadata |-> Undefined, originalRequest |-> Undefined]

\* Date.now()-based entry ids: unique per turn and entry
MessageId(t, k) == <<"m", t, k>>

\* URL.createObjectURL(file), FileReader.readAsDataURL(file), dataUrlToFile(url)
BlobUrl(t, k) == <<"blob:", ToString(10 * t + k)>>
DataUrl(file) == <<file.type, file.data>>
dataUrlToFile(url) == [type |-> url[1], data |-> url[2]]
readFilesAsBase64(files) ==
  Arr([k \in 1..Len(files) |-> [base64Data |-> files[k].data, mimeType |-> files[k].type]])

\* the number of loading placeholders a turn puts into the gallery (Array(3))
PlaceholderCount == 3

placeholderVariations(t) ==
  [i \in 1..PlaceholderCount |->
     [id |-> <<"placeholder", t, i>>, title |-> Str(<<"Loading...">>),
      description |-> Str(<<"...">>), imageUrl |-> <<>>, isLoading |-> TRUE,
      isError |-> FALSE, errorMessage |-> NoError, retryPayload |-> Undefined]]

IdleTurn ==
  [pc |-> "idle", album |-> NewAlbum, prompt |-> Undefined, imageFiles |-> <<>>,
   useWebSearch |-> FALSE, aspectRatio |-> Undefined, isNewTextToImage |-> FALSE,
   filesToProcess |-> <<>>, sourceForDisplay |-> <<>>, displayImageUrls |-> <<>>,
   currentAlbumState |-> NewAlbum, planData |-> Undefined, groundingData |-> Undefined,
   finalVariations |-> <<>>, readerPending |-> FALSE, created |-> <<>>, revoked |-> <<>>,
   failedMessage |-> Undefined]

userMessage(t, f) ==
  [Message(MessageId(t, 0), "user") EXCEPT !.text = f.prompt, !.imageUrls = f.displayImageUrls]
loadingMessage(t, f) ==
  [Message(MessageId(t, 1), "assistant") EXCEPT !.isLoading = TRUE,
                                                !.sourceImageUrl = f.sourceForDisplay]
updatedChatWithUser(t, f) == Append(f.album.chatHistory, userMessage(t, f))
loadingChatHistory(t, f) == Append(updatedChatWithUser(t, f), loadingMessage(t, f))
WithoutLoading(t, history) == SelectSeq(history, LAMBDA msg : msg.id # MessageId(t, 1))
NotLoading(images) == SelectSeq(images, LAMBDA img : ~img.isLoading)

\* lines 733-758: the user entry, the placeholders and the loading entry are
\* published; the last of the three publications is the album that stays
published(t, f) ==
  [f.album EXCEPT !.chatHistory = loadingChatHistory(t, f),
                  !.galleryImages = f.album.galleryImages \o placeholderVariations(t)]

\* the free slots of the turn and retry frames, taken in order
FreeTurn(t) == turn[t].pc = "idle" /\ \A u \in 1..(t - 1) : turn[u].pc # "idle"
FreeRetry(r) == retry[r].pc = "idle" /\ \A u \in 1..(r - 1) : retry[u].pc # "idle"

\* ChatInput is disabled while the last chat entry is the loading entry
isAssistantLoading ==
  album.chatHistory # <<>> /\ album.chatHistory[Len(album.chatHistory)].isLoading

\* what the user can send
UserPrompts == {Str(<<>>), Str(<<"p">>)}
UserFile == [data |-> "SRC", type |-> "image/jpeg"]
UserFileLists == {<<>>, <<UserFile>>}
UserAspectRatios == {Str(<<"16:9">>)}

\* handleSendPrompt, from the call to execute()'s first await.  `closure` is
\* the album of the render the handler belongs to, `shown` the album on
\* display when execute() is called, `failedMessage` the entry handleRetry was
\* called with (undefined for a turn started from the chat input).
execute(t, closure, shown, failedMessage, prompt, imageFiles, useWebSearch, aspectRatio) ==
  LET f0 == [IdleTurn EXCEPT !.failedMessage = failedMessage,
                             !.album = closure, !.prompt = prompt,
                             !.imageFiles = imageFiles, !.useWebSearch = useWebSearch,
                             !.aspectRatio = aspectRatio, !.filesToProcess = imageFiles,
                             !.displayImageUrls =
                                [k \in 1..Len(imageFiles) |-> BlobUrl(t, k)],
                             !.created = [k \in 1..Len(imageFiles) |-> BlobUrl(t, k)]]
  IN IF imageFiles = <<>> /\ closure.referenceImageUrl # <<>>
     THEN \* Case 1: the reference image is read back into a file first
          /\ turn' = [turn EXCEPT ![t] = [f0 EXCEPT !.pc = "awaitRefFile"]]
          /\ album' = shown
          /\ UNCHANGED <<gen, net, ai>>
     ELSE IF imageFiles = <<>>
     THEN \* Case 2: text to image; the generator starts at once
          LET f == [f0 EXCEPT !.isNewTextToImage = TRUE, !.pc = "streaming",
                              !.currentAlbumState = published(t, f0)]
          IN /\ turn' = [turn EXCEPT ![t] = f]
             /\ album' = published(t, f0)
             /\ generate(t, "generateNewImages", Undefined, prompt, useWebSearch,
                         aspectRatio)
     ELSE \* Case 3: uploaded files; the first is read to become the reference
          LET f1 == [f0 EXCEPT !.sourceForDisplay = BlobUrl(t, 1), !.readerPending = TRUE]
              f == [f1 EXCEPT !.pc = "awaitReadFiles",
                              !.currentAlbumState = published(t, f1)]
          IN /\ turn' = [turn EXCEPT ![t] = f]
             /\ album' = published(t, f1)
             /\ UNCHANGED <<gen, net, ai>>

\* the user sends a prompt from the chat input
SendPrompt(t) ==
  \E prompt \in UserPrompts, imageFiles \in UserFileLists, useWebSearch \in BOOLEAN,
     aspectRatio \in UserAspectRatios, isDevMode \in BOOLEAN :
    /\ FreeTurn(t)
    /\ ~isAssistantLoading
    /\ \A u \in Gens : turn[u].pc # "devModal"
    /\ IF ~Truthy(prompt)
       THEN /\ turn' = [turn EXCEPT ![t] = [IdleTurn EXCEPT !.pc = "done"]]
            /\ UNCHANGED <<album, gen, net, ai>>
       ELSE IF isDevMode
       THEN /\ turn' = [turn EXCEPT ![t] =
                          [IdleTurn EXCEPT !.pc = "devModal", !.album = album,
                                           !.prompt = prompt, !.imageFiles = imageFiles,
                                           !.useWebSearch = useWebSearch,
                                           !.aspectRatio = aspectRatio]]
            /\ UNCHANGED <<album, gen, net, ai>>
       ELSE execute(t, album, album, Undefined, prompt, imageFiles, useWebSearch,
                    aspectRatio)
    /\ UNCHANGED <<apiKey, rcall, retry>>

\* the developer-mode dialog: confirmed (execute runs) or closed
DevModal(t) ==
  /\ turn[t].pc = "devModal"
  /\ \/ execute(t, turn[t].album, album, turn[t].failedMessage, turn[t].prompt,
                turn[t].imageFiles, turn[t].useWebSearch, turn[t].aspectRatio)
     \/ /\ turn' = [turn EXCEPT ![t].pc = "done"]
        /\ UNCHANGED <<album, gen, net, ai>>
  /\ UNCHANGED <<apiKey, rcall, retry>>

\* handleRetry (lines 861-867): the error entry is filtered out of the
\* handler's album and published, then handleSendPrompt of the same render is
\* called with the original request
HandleRetry(t) ==
  \E k \in 1..Len(album.chatHistory), isDevMode \in BOOLEAN :
    LET failedMessage == album.chatHistory[k]
        request == failedMessage.originalRequest
        historyWithoutError ==
          SelectSeq(album.chatHistory, LAMBDA m : m.id # failedMessage.id)
        withoutError == [album EXCEPT !.chatHistory = historyWithoutError]
    IN /\ FreeTurn(t)
       /\ \A u \in Gens : turn[u].pc # "devModal"
       /\ request # Undefined
       /\ IF ~Truthy(request.prompt)
          THEN /\ turn' = [turn EXCEPT ![t] = [IdleTurn EXCEPT !.pc = "done",
                                                               !.failedMessage = failedMessage]]
               /\ album' = withoutError
               /\ UNCHANGED <<gen, net, ai>>
          ELSE IF isDevMode
          THEN /\ turn' = [turn EXCEPT ![t] =
                             [IdleTurn EXCEPT !.pc = "devModal", !.album = album,
                                              !.failedMessage = failedMessage,
                                              !.prompt = request.prompt,
                                              !.imageFiles = request.imageFiles,
                                              !.useWebSearch = request.useWebSearch,
                                              !.aspectRatio = request.aspectRatio]]
               /\ album' = withoutError
               /\ UNCHANGED <<gen, net, ai>>
          ELSE execute(t, album, withoutError, failedMessage, request.prompt,
                       request.imageFiles, request.useWebSearch, request.aspectRatio)
       /\ UNCHANGED <<apiKey, rcall, retry>>

\* mutant: the finally block revokes every display URL
revokeDisplayUrlsAll(f) ==
  [f EXCEPT !.pc = "done", !.revoked = @ \o f.displayImageUrls]

\* the finally block of execute (lines 828-835): the blob URLs among the
\* display URLs are passed to URL.revokeObjectURL
revokeDisplayUrls(f) ==
  [f EXCEPT !.pc = "done",
            !.revoked = @ \o SelectSeq(f.displayImageUrls, LAMBDA url : url[1] = "blob:")]

\* mutant: the catch block publishes the album it streamed into, with the error
\* entry appended
turnFailedKeepsLoading(t, f, message) ==
  [f.currentAlbumState EXCEPT
     !.chatHistory =
        Append(@, [Message(MessageId(t, 4), "assistant") EXCEPT
                     !.text = Str(message), !.isError = TRUE])]

\* lines 813-827: the turn's catch block
turnFailed(t, f, message) ==
  [f.album EXCEPT
     !.chatHistory =
        Append(WithoutLoading(t, loadingChatHistory(t, f)),
               [Message(MessageId(t, 4), "assistant") EXCEPT
                  !.text = Str(message), !.isError = TRUE,
                  !.originalRequest =
                     [prompt |-> f.prompt, imageFiles |-> f.filesToProcess,
                      sourceImageUrl |-> f.sourceForDisplay,
                      useWebSearch |-> f.useWebSearch, aspectRatio |-> f.aspectRatio]]),
     !.galleryImages = NotLoading(f.currentAlbumState.galleryImages)]

\* dataUrlToFile has answered: the turn goes on with the reference image, or
\* the handler returns
RefFileRead(t) ==
  /\ turn[t].pc = "awaitRefFile"
  /\ \/ LET f1 == [turn[t] EXCEPT
                     !.filesToProcess = <<dataUrlToFile(turn[t].album.referenceImageUrl)>>,
                     !.sourceForDisplay = turn[t].album.referenceImageUrl,
                     !.displayImageUrls = <<turn[t].album.referenceImageUrl>>]
        IN /\ turn' = [turn EXCEPT ![t] =
                         [f1 EXCEPT !.pc = "awaitReadFiles",
                                    !.currentAlbumState = published(t, f1)]]
           /\ album' = published(t, f1)
     \/ /\ turn' = [turn EXCEPT ![t].pc = "done"]
        /\ UNCHANGED album
  /\ UNCHANGED <<apiKey, ai, net, gen, rcall, retry>>

\* readFilesAsBase64 has answered: the edit generator starts, or the catch
\* block reports the read error
FilesRead(t) ==
  /\ turn[t].pc = "awaitReadFiles"
  /\ \/ /\ generate(t, "generateImageEdits", readFilesAsBase64(turn[t].filesToProcess),
                    turn[t].prompt, turn[t].useWebSearch, turn[t].aspectRatio)
        /\ turn' = [turn EXCEPT ![t].pc = "streaming"]
        /\ UNCHANGED album
     \/ /\ album' = turnFailed(t, turn[t], <<"read error">>)
        /\ turn' = [turn EXCEPT ![t] = revokeDisplayUrls(turn[t])]
        /\ UNCHANGED <<gen, net, ai>>
  /\ UNCHANGED <<apiKey, rcall, retry>>

\* reader.onloadend: App's handleSetReferenceImage of the turn's render
ReaderLoaded(t) ==
  /\ turn[t].readerPending
  /\ album' = [turn[t].album EXCEPT !.referenceImageUrl = DataUrl(turn[t].imageFiles[1])]
  /\ turn' = [turn EXCEPT ![t].readerPending = FALSE]
  /\ UNCHANGED <<apiKey, ai, net, gen, rcall, retry>>

\* findIndex(img => img.isLoading): 0 when there is none
RECURSIVE findLoading(_, _)
findLoading(images, k) ==
  IF k > Len(images) THEN 0
  ELSE IF images[k].isLoading THEN k
  ELSE findLoading(images, k + 1)

\* the body of the `for await` loop for one event (lines 779-793): the
\* turn's frame after it
onEvent(t, f, event) ==
  CASE event.type = "progress" ->
         [f EXCEPT !.currentAlbumState.chatHistory =
            [k \in 1..Len(@) |->
               IF @[k].id = MessageId(t, 1)
               THEN [@[k] EXCEPT !.statusMessage = Str(<<event.message>>)]
               ELSE @[k]]]
    [] event.type = "plan" ->
         [f EXCEPT !.planData = event.plan, !.groundingData = event.groundingMetadata]
    [] OTHER ->
         LET placeholderIndex == findLoading(f.currentAlbumState.galleryImages, 1) IN
         [f EXCEPT !.finalVariations = Append(@, event.variation),
                   !.currentAlbumState.galleryImages =
                      IF placeholderIndex = 0 THEN @
                      ELSE [@ EXCEPT ![placeholderIndex] = event.variation]]

\* an event without effect on the album is not published
Publishes(f, event) ==
  \/ event.type = "progress"
  \/ event.type = "variation" /\ findLoading(f.currentAlbumState.galleryImages, 1) # 0

\* the turn takes the next event of its generator
TurnOnEvent(t) ==
  /\ turn[t].pc = "streaming"
  /\ Suspended(gen[t])
  /\ LET event == gen[t].events[gen[t].consumed + 1]
         f == onEvent(t, turn[t], event)
     IN /\ turn' = [turn EXCEPT ![t] = f]
        /\ album' = IF Publishes(turn[t], event) THEN f.currentAlbumState ELSE album
  /\ gen' = [gen EXCEPT ![t].consumed = @ + 1]
  /\ UNCHANGED <<apiKey, ai, net, rcall, retry>>

\* mutant: the final history is built on the history the turn streamed into
turnCompletedOnCurrent(t, f) ==
  [f.currentAlbumState EXCEPT
     !.chatHistory =
        @ \o
          <<[Message(MessageId(t, 2), "assistant") EXCEPT !.text = f.planData.val.textResponse],
            [Message(MessageId(t, 3), "assistant") EXCEPT
               !.variations = Arr(f.finalVariations),
               !.followUpSuggestions = f.planData.val.followUpSuggestions,
               !.sourceImageUrl = f.sourceForDisplay,
               !.groundingMetadata = f.groundingData]>>,
     !.galleryImages = NotLoading(f.currentAlbumState.galleryImages)]

\* lines 796-811: the generator has ended, the turn publishes its result
turnCompleted(t, f) ==
  [f.currentAlbumState EXCEPT
     !.chatHistory =
        WithoutLoading(t, loadingChatHistory(t, f)) \o
          <<[Message(MessageId(t, 2), "assistant") EXCEPT !.text = f.planData.val.textResponse],
            [Message(MessageId(t, 3), "assistant") EXCEPT
               !.variations = Arr(f.finalVariations),
               !.followUpSuggestions = f.planData.val.followUpSuggestions,
               !.sourceImageUrl = f.sourceForDisplay,
               !.groundingMetadata = f.groundingData]>>,
     !.galleryImages = NotLoading(f.currentAlbumState.galleryImages)]

TurnEnd(t) ==
  /\ turn[t].pc = "streaming"
  /\ ~Suspended(gen[t])
  /\ gen[t].pc \in {"done", "failed"}
  /\ album' = IF gen[t].pc = "failed" THEN turnFailed(t, turn[t], gen[t].error)
              ELSE IF turn[t].planData = Undefined
              THEN turnFailed(t, turn[t], <<"Did not receive plan from generator.">>)
              ELSE turnCompleted(t, turn[t])
  /\ turn' = [turn EXCEPT ![t] = revokeDisplayUrls(turn[t])]
  /\ UNCHANGED <<apiKey, ai, net, gen, rcall, retry>>

(***************************************************************************)
(* handleRetryVariation.                                                   *)
(***************************************************************************)
IdleRetry == [pc |-> "idle", album |-> NewAlbum, failedVariation |-> Undefined]

\* the variations on display: the gallery and the chat entries' variations
RECURSIVE ChatVariations(_)
ChatVariations(history) ==
  IF history = <<>> THEN {}
  ELSE (IF Head(history).variations.type = "array"
        THEN {Head(history).variations.val[k] : k \in 1..Len(Head(history).variations.val)}
        ELSE {})
         \cup ChatVariations(Tail(history))

Displayed(a) ==
  {a.galleryImages[k] : k \in 1..Len(a.galleryImages)} \cup ChatVariations(a.chatHistory)

\* line 870: the handler acts on a variation that carries a retry payload
Retriable(v) == v.retryPayload # Undefined

\* updateVariationState (lines 872-879), on the handler's own album
updateVariationState(closure, failedVariation, updatedVariation) ==
  [closure EXCEPT
     !.galleryImages =
        [k \in 1..Len(@) |-> IF @[k].id = failedVariation.id THEN updatedVariation ELSE @[k]],
     !.chatHistory =
        [k \in 1..Len(@) |->
           IF @[k].variations.type # "array" THEN @[k]
           ELSE [@[k] EXCEPT !.variations.val =
                   [j \in 1..Len(@) |->
                      IF @[j].id = failedVariation.id THEN updatedVariation ELSE @[j]]]]]

\* mutant: the loading record of a retry keeps the error flag
loadingVariationKeepsError(failedVariation) ==
  [failedVariation EXCEPT !.isLoading = TRUE, !.errorMessage = NoError]
loadingVariation(failedVariation) ==
  [failedVariation EXCEPT !.isLoading = TRUE, !.isError = FALSE, !.errorMessage = NoError]
retriedVariation(failedVariation, mimeType, data) ==
  [failedVariation EXCEPT !.imageUrl = <<mimeType, data>>, !.isLoading = FALSE,
                          !.isError = FALSE, !.retryPayload = Undefined]
\* mutant: the error record of a failed retry is built afresh, without the payload
newErrorVariationDropsPayload(failedVariation, message) ==
  [failedVariation EXCEPT !.isLoading = FALSE, !.isError = TRUE, !.errorMessage = message,
                          !.retryPayload = Undefined]
newErrorVariation(failedVariation, message) ==
  [failedVariation EXCEPT !.isLoading = FALSE, !.isError = TRUE, !.errorMessage = message]

\* mutant: every retry goes to the edit entry point
retryPathAlwaysEdit(payload) == "retryImageGeneration"

\* lines 889-894: the entry point a retry payload leads to
retryPath(payload) ==
  IF Truthy(payload.images) /\ Len(payload.images.val) > 0 THEN "retryImageGeneration"
  ELSE "retryNewImageGeneration"

\* the user retries a failed variation: the handler publishes the loading
\* state and calls the entry point
RetryVariation(r) ==
  /\ FreeRetry(r)
  /\ \E failedVariation \in {v \in Displayed(album) : Retriable(v)} :
       /\ album' = updateVariationState(album, failedVariation,
                                        loadingVariation(failedVariation))
       /\ retry' = [retry EXCEPT ![r] = [pc |-> "awaiting", album |-> album,
                                         failedVariation |-> failedVariation]]
       /\ LET payload == failedVariation.retryPayload IN
          renderCall(r, retryPath(payload), payload.images, payload.prompt,
                     IF retryPath(payload) = "retryImageGeneration" THEN Undefined
                     ELSE Or(payload.aspectRatio, Str(<<"1:1">>)))
  /\ UNCHANGED <<apiKey, gen, turn>>

\* the entry point has returned or thrown: the handler publishes the result
RetryEnd(r) ==
  /\ retry[r].pc = "awaiting"
  /\ rcall[r].pc \in {"returned", "threw"}
  /\ LET failedVariation == retry[r].failedVariation
         mimeType == IF rcall[r].fn = "retryImageGeneration"
                     THEN failedVariation.retryPayload.images.val[1].mimeType
                     ELSE "image/png"
     IN album' = updateVariationState(retry[r].album, failedVariation,
                   IF rcall[r].pc = "returned"
                   THEN retriedVariation(failedVariation, mimeType, rcall[r].image)
                   ELSE newErrorVariation(failedVariation, rcall[r].error))
  /\ retry' = [retry EXCEPT ![r].pc = "done"]
  /\ UNCHANGED <<apiKey, ai, net, gen, rcall, turn>>

\* onSetReferenceImage from the gallery, the image dialog or the chat input:
\* App's handleSetReferenceImage on the current album
SetReferenceImage ==
  \E url \in {v.imageUrl : v \in Displayed(album)} \cup {<<>>} :
    /\ url # album.referenceImageUrl
    /\ album' = [album EXCEPT !.referenceImageUrl = url]
    /\ UNCHANGED <<apiKey, ai, net, gen, rcall, turn, retry>>

(***************************************************************************)
(* extractJson (lines 19-56).  A text is a sequence of characters; the     *)
(* three backticks of a fence and the word json are one character each.    *)
(***************************************************************************)
Fence == "<fence>"
Json == "json"
Chars == {Fence, Json, "{", "}", "[", "]", " ", "x", "\""}

\* String.prototype.indexOf / lastIndexOf for the characters of a set, 1-based:
\* 0 when there is none
RECURSIVE IndexFrom(_, _, _)
IndexFrom(text, set, k) ==
  IF k > Len(text) THEN 0
  ELSE IF text[k] \in set THEN k
  ELSE IndexFrom(text, set, k + 1)

RECURSIVE LastIndexFrom(_, _, _)
LastIndexFrom(text, set, k) ==
  IF k < 1 THEN 0
  ELSE IF text[k] \in set THEN k
  ELSE LastIndexFrom(text, set, k - 1)

indexOf(text, c) == IndexFrom(text, {c}, 1)
lastIndexOf(text, c) == LastIndexFrom(text, {c}, Len(text))

\* the first place where the opening fence and json stand: the index, or 0
RECURSIVE FenceOpening(_, _)
FenceOpening(text, k) ==
  IF k + 1 > Len(text) THEN 0
  ELSE IF text[k] = Fence /\ text[k + 1] = Json THEN k
  ELSE FenceOpening(text, k + 1)

\* text.match(fence json \s* ([\s\S]*?) \s* fence), line 21: the match starts
\* at the first opening fence that a fence follows; \s* takes the white space
\* after it, the lazy group runs up to the white space before the next fence.
\* [matched, group]
markdownMatch(text) ==
  LET open == FenceOpening(text, 1)
      from == IF open = 0 THEN 0
              ELSE IndexFrom(text, Chars \ {" "}, open + 2)
      close == IF from = 0 THEN 0 ELSE IndexFrom(text, {Fence}, from)
  IN IF close = 0 THEN [matched |-> FALSE, group |-> <<>>]
     ELSE [matched |-> TRUE, group |-> TrimRight(SubSeq(text, from, close - 1))]

Returned(value) == [called |-> TRUE, threw |-> FALSE, value |-> value, message |-> <<>>]
Thrown(message) == [called |-> TRUE, threw |-> TRUE, value |-> <<>>, message |-> message]
NoJsonIn(text) ==
  <<"Could not find a valid JSON object or array in the response. Model returned: \"">>
    \o text \o <<"\"">>

\* mutant: a text without an opening delimiter gives the empty string
bracketSpanSilent(text) ==
  LET firstBracket == indexOf(text, "[")
      firstBrace == indexOf(text, "{")
      start == IF firstBracket = 0 THEN firstBrace
               ELSE IF firstBrace = 0 THEN firstBracket
               ELSE IF firstBracket < firstBrace THEN firstBracket ELSE firstBrace
      lastBracket == lastIndexOf(text, "]")
      lastBrace == lastIndexOf(text, "}")
      end == IF lastBracket > lastBrace THEN lastBracket ELSE lastBrace
  IN IF start = 0 THEN Returned(<<>>)
     ELSE IF end = 0 \/ end < start THEN Thrown(NoJsonIn(text))
     ELSE Returned(SubSeq(text, start, end))

\* mutant: the span ends at the first closing delimiter after its start
bracketSpanFirstClosing(text) ==
  LET firstBracket == indexOf(text, "[")
      firstBrace == indexOf(text, "{")
      start == IF firstBracket = 0 THEN firstBrace
               ELSE IF firstBrace = 0 THEN firstBracket
               ELSE IF firstBracket < firstBrace THEN firstBracket ELSE firstBrace
      end == IF start = 0 THEN 0 ELSE IndexFrom(text, {"]", "}"}, start)
  IN IF start = 0 THEN Thrown(NoJsonIn(text))
     ELSE IF end = 0 \/ end < start THEN Thrown(NoJsonIn(text))
     ELSE Returned(SubSeq(text, start, end))

\* lines 26-55: from the first opening brace or bracket to the last closing one
bracketSpan(text) ==
  LET firstBracket == indexOf(text, "[")
      firstBrace == indexOf(text, "{")
      start == IF firstBracket = 0 THEN firstBrace
               ELSE IF firstBrace = 0 THEN firstBracket
               ELSE IF firstBracket < firstBrace THEN firstBracket ELSE firstBrace
      lastBracket == lastIndexOf(text, "]")
      lastBrace == lastIndexOf(text, "}")
      end == IF lastBracket > lastBrace THEN lastBracket ELSE lastBrace
  IN IF start = 0 THEN Thrown(NoJsonIn(text))
     ELSE IF end = 0 \/ end < start THEN Thrown(NoJsonIn(text))
     ELSE Returned(SubSeq(text, start, end))

extractJson(text) ==
  IF markdownMatch(text).matched /\ markdownMatch(text).group # <<>>
  THEN Returned(Trim(markdownMatch(text).group))
  ELSE bracketSpan(text)

\* the response texts extractJson is applied to: every text of at most
\* MaxTextLen characters, and the texts that wrap a JSON value in a fence
\* between words, delimiters and white space
TextsOfLength(n) == [1..n -> Chars]
ShortTexts == UNION {TextsOfLength(n) : n \in 0..MaxTextLen}
JsonValues ==
  {<<"{", "}">>, <<"[", "x", "]">>, <<"{", "x", " ", "x", "}">>,
   <<"[", "{", "}", "]">>, <<"{", "\"", Fence, "\"", "}">>}
Around == {<<>>, <<"x">>, <<"x", " ">>, <<"{">>, <<"x", "]">>, <<"}", " ", "[">>}
Blanks == {<<>>, <<" ">>, <<" ", " ">>}
Fenced(before, b1, json, b2, after) ==
  before \o <<Fence, Json>> \o b1 \o json \o b2 \o <<Fence>> \o after
Responses ==
  {[text |-> t, json |-> <<>>] : t \in ShortTexts}
    \cup {[text |-> Fenced(before, b1, json, b2, after), json |-> json] :
            before \in Around, b1 \in Blanks, json \in JsonValues, b2 \in Blanks,
            after \in Around}

NoResponse == [text |-> <<>>, json |-> <<>>]
NotExtracted == [called |-> FALSE, threw |-> FALSE, value |-> <<>>, message |-> <<>>]

\* const planJsonText = extractJson(planResponse.text)
ExtractJson ==
  /\ ~extracted.called
  /\ extracted' = extractJson(reply.text)
  /\ UNCHANGED <<apiKey, ai, net, gen, rcall, album, turn, retry, reply>>

(***************************************************************************)
(* Specifications.                                                         *)
(***************************************************************************)
Init ==
  /\ apiKey \in BOOLEAN
  /\ ai = FALSE
  /\ net = {}
  /\ gen = [g \in Gens |-> IdleGen]
  /\ rcall = [r \in Calls |-> IdleCall]
  /\ album = NewAlbum
  /\ turn = [t \in Gens |-> IdleTurn]
  /\ retry = [r \in Calls |-> IdleRetry]
  /\ reply = NoResponse
  /\ extracted = NotExtracted

\* the service driven by a caller of its exported functions
ServiceNext ==
  \/ \E g \in Gens : CallGenerateNewImages(g) /\ UNCHANGED <<uiVars, fnVars>>
  \/ \E g \in Gens : CallGenerateImageEdits(g) /\ UNCHANGED <<uiVars, fnVars>>
  \/ \E g \in Gens : CallerNext(g) /\ UNCHANGED <<uiVars, fnVars>>
  \/ \E g \in Gens : GenResume(g) /\ UNCHANGED <<uiVars, fnVars>>
  \/ \E g \in Gens : GenTimer(g) /\ UNCHANGED <<uiVars, fnVars>>
  \/ \E g \in Gens : GenPlanReturn(g, PlanResponses(EntryKinds)) /\ UNCHANGED <<uiVars, fnVars>>
  \/ \E g \in Gens : GenRenderReturn(g) /\ UNCHANGED <<uiVars, fnVars>>
  \/ \E r \in Calls : CallRetryImageGeneration(r) /\ UNCHANGED <<uiVars, fnVars>>
  \/ \E r \in Calls : CallRetryNewImageGeneration(r) /\ UNCHANGED <<uiVars, fnVars>>
  \/ \E r \in Calls : CallReturn(r, RenderAnswers) /\ UNCHANGED <<uiVars, fnVars>>

SpecService == Init /\ [][ServiceNext]_vars

\* extractJson applied to one response text
InitExtract ==
  /\ apiKey = TRUE
  /\ ai = FALSE
  /\ net = {}
  /\ gen = [g \in Gens |-> IdleGen]
  /\ rcall = [r \in Calls |-> IdleCall]
  /\ album = NewAlbum
  /\ turn = [t \in Gens |-> IdleTurn]
  /\ retry = [r \in Calls |-> IdleRetry]
  /\ reply \in Responses
  /\ extracted = NotExtracted

ExtractNext == ExtractJson

SpecExtract == InitExtract /\ [][ExtractNext]_vars

\* the retry entry points and the single-call operations, answered by every
\* shape of answer
RenderNext ==
  \/ \E r \in Calls : CallRetryImageGeneration(r) /\ UNCHANGED <<uiVars, fnVars>>
  \/ \E r \in Calls : CallRetryNewImageGeneration(r) /\ UNCHANGED <<uiVars, fnVars>>
  \/ \E r \in Calls : CallReturn(r, AllRenderAnswers) /\ UNCHANGED <<uiVars, fnVars>>
  \/ \E r \in Calls : CallAux(r) /\ UNCHANGED <<uiVars, fnVars>>
  \/ \E r \in Calls : AuxReturn(r) /\ UNCHANGED <<uiVars, fnVars>>

SpecRender == Init /\ [][RenderNext]_vars

(***************************************************************************)
(* A chat session in progress: the albums an earlier turn (turn 0) of the  *)
(* session has left, built with the operators of that turn.                *)
(***************************************************************************)
EarlierPrompt == Str(<<"p">>)
EarlierPlan ==
  PlanObject(Str(<<"hi">>), Arr(<<VariationSpec(1, Str(<<"P">>)), VariationSpec(2, Str(<<"P">>))>>))
EarlierGen(i) ==
  [IdleGen EXCEPT !.fn = "generateNewImages", !.userPrompt = EarlierPrompt,
                  !.aspectRatio = Str(<<"16:9">>), !.plan = EarlierPlan, !.i = i]

\* the frame of an earlier turn after the synchronous part of execute()
EarlierTurn(imageFiles) ==
  LET f == [IdleTurn EXCEPT
              !.album = NewAlbum, !.prompt = EarlierPrompt, !.imageFiles = imageFiles,
              !.aspectRatio = Str(<<"16:9">>), !.filesToProcess = imageFiles,
              !.isNewTextToImage = imageFiles = <<>>,
              !.displayImageUrls = [k \in 1..Len(imageFiles) |-> BlobUrl(0, k)],
              !.created = [k \in 1..Len(imageFiles) |-> BlobUrl(0, k)],
              !.sourceForDisplay = IF imageFiles = <<>> THEN <<>> ELSE BlobUrl(0, 1)]
  IN [f EXCEPT !.currentAlbumState = published(0, f)]

\* an earlier turn whose plan request failed, without and with an uploaded file
AlbumAfterFailedTurn(imageFiles) == turnFailed(0, EarlierTurn(imageFiles), InvalidPlanMsg)

\* an earlier text-to-image turn that completed: its first variation failed to
\* render, its second was rendered
AlbumAfterTurn ==
  LET f1 == onEvent(0, EarlierTurn(<<>>), PlanEvent(EarlierPlan, Undefined))
      f2 == onEvent(0, f1, VariationEvent(
                             errorVariation(0, EarlierGen(1), Variations(EarlierGen(1))[1],
                                            NoImagesMsg,
                                            retryPayload(EarlierGen(1),
                                                         Variations(EarlierGen(1))[1]))))
      f3 == onEvent(0, f2, VariationEvent(
                             newVariation(0, EarlierGen(2), Variations(EarlierGen(2))[2],
                                          "image/png", "IMG")))
  IN turnCompleted(0, f3)

\* the same album after the rendered variation was made the reference image
AlbumWithReference ==
  [AlbumAfterTurn EXCEPT !.referenceImageUrl = AlbumAfterTurn.galleryImages[2].imageUrl]

SessionAlbums ==
  {NewAlbum, AlbumAfterFailedTurn(<<>>), AlbumAfterFailedTurn(<<UserFile>>),
   AlbumAfterTurn, AlbumWithReference}

\* the plan answers of a session turn: no JSON, an empty plan, and plans of
\* one to MaxPlanned variations
SessionPlans ==
  {PlanObject(Str(<<"hi">>), Arr([i \in 1..n |-> VariationSpec(i, Str(<<"P">>))])) :
     n \in 0..MaxPlanned}
SessionPlanResponses ==
  {[kind |-> "noJson", plan |-> Undefined]} \cup {[kind |-> "json", plan |-> p] : p \in SessionPlans}

InitSession ==
  /\ apiKey = TRUE
  /\ ai = FALSE
  /\ net = {}
  /\ gen = [g \in Gens |-> IdleGen]
  /\ rcall = [r \in Calls |-> IdleCall]
  /\ album \in SessionAlbums
  /\ turn = [t \in Gens |-> IdleTurn]
  /\ retry = [r \in Calls |-> IdleRetry]
  /\ reply = NoResponse
  /\ extracted = NotExtracted

SessionNext ==
  \/ (\E t \in Gens : SendPrompt(t)) /\ UNCHANGED fnVars
  \/ (\E t \in Gens : HandleRetry(t)) /\ UNCHANGED fnVars
  \/ (\E t \in Gens : DevModal(t)) /\ UNCHANGED fnVars
  \/ (\E t \in Gens : RefFileRead(t)) /\ UNCHANGED fnVars
  \/ (\E t \in Gens : FilesRead(t)) /\ UNCHANGED fnVars
  \/ (\E t \in Gens : ReaderLoaded(t)) /\ UNCHANGED fnVars
  \/ (\E t \in Gens : TurnOnEvent(t)) /\ UNCHANGED fnVars
  \/ (\E t \in Gens : TurnEnd(t)) /\ UNCHANGED fnVars
  \/ \E g \in Gens : GenResume(g) /\ UNCHANGED <<uiVars, fnVars>>
  \/ \E g \in Gens : GenTimer(g) /\ UNCHANGED <<uiVars, fnVars>>
  \/ \E g \in Gens : GenPlanReturn(g, SessionPlanResponses) /\ UNCHANGED <<uiVars, fnVars>>
  \/ \E g \in Gens : GenRenderReturn(g) /\ UNCHANGED <<uiVars, fnVars>>

SpecSession == InitSession /\ [][SessionNext]_vars

\* a session in which failed variations of the earlier turn are retried while
\* the user starts a turn
RetryPlanResponses ==
  {[kind |-> "json",
    plan |-> PlanObject(Str(<<"hi">>), Arr([i \in 1..n |-> VariationSpec(i, Str(<<"P">>))]))] :
     n \in 1..2}

InitRetrySession == InitSession /\ album = AlbumAfterTurn

RetrySessionNext ==
  \/ (\E t \in Gens : SendPrompt(t)) /\ UNCHANGED fnVars
  \/ (\E t \in Gens : DevModal(t)) /\ UNCHANGED fnVars
  \/ (\E t \in Gens : FilesRead(t)) /\ UNCHANGED fnVars
  \/ (\E t \in Gens : ReaderLoaded(t)) /\ UNCHANGED fnVars
  \/ (\E t \in Gens : TurnOnEvent(t)) /\ UNCHANGED fnVars
  \/ (\E t \in Gens : TurnEnd(t)) /\ UNCHANGED fnVars
  \/ \E g \in Gens : GenResume(g) /\ UNCHANGED <<uiVars, fnVars>>
  \/ \E g \in Gens : GenTimer(g) /\ UNCHANGED <<uiVars, fnVars>>
  \/ \E g \in Gens : GenPlanReturn(g, RetryPlanResponses) /\ UNCHANGED <<uiVars, fnVars>>
  \/ \E g \in Gens : GenRenderReturn(g) /\ UNCHANGED <<uiVars, fnVars>>
  \/ (\E r \in Calls : RetryVariation(r)) /\ UNCHANGED fnVars
  \/ \E r \in Calls : CallReturn(r, RenderAnswers) /\ UNCHANGED <<uiVars, fnVars>>
  \/ (\E r \in Calls : RetryEnd(r)) /\ UNCHANGED fnVars

SpecRetrySession == InitRetrySession /\ [][RetrySessionNext]_vars

\* the entries of the plans the program's turns receive
TurnEntryKinds == {Str(<<"P">>)}

\* the program: the user's actions, the handlers and the remote model
Next ==
  \/ (\E t \in Gens : SendPrompt(t)) /\ UNCHANGED fnVars
  \/ (\E t \in Gens : DevModal(t)) /\ UNCHANGED fnVars
  \/ (\E t \in Gens : FilesRead(t)) /\ UNCHANGED fnVars
  \/ (\E t \in Gens : ReaderLoaded(t)) /\ UNCHANGED fnVars
  \/ (\E t \in Gens : TurnOnEvent(t)) /\ UNCHANGED fnVars
  \/ (\E t \in Gens : TurnEnd(t)) /\ UNCHANGED fnVars
  \/ \E g \in Gens : GenResume(g) /\ UNCHANGED <<uiVars, fnVars>>
  \/ \E g \in Gens : GenTimer(g) /\ UNCHANGED <<uiVars, fnVars>>
  \/ \E g \in Gens : GenPlanReturn(g, PlanResponses(TurnEntryKinds)) /\ UNCHANGED <<uiVars, fnVars>>
  \/ \E g \in Gens : GenRenderReturn(g) /\ UNCHANGED <<uiVars, fnVars>>
  \/ (\E r \in Calls : RetryVariation(r)) /\ UNCHANGED fnVars
  \/ \E r \in Calls : CallReturn(r, RenderAnswers) /\ UNCHANGED <<uiVars, fnVars>>
  \/ (\E r \in Calls : RetryEnd(r)) /\ UNCHANGED fnVars

Spec == Init /\ [][Next]_vars

(***************************************************************************)
(* Properties.                                                             *)
(***************************************************************************)
EventsOf(f, type) == SelectSeq(f.events, LAMBDA e : e.type = type)
VariationEvents(f) == EventsOf(f, "variation")
RendersInFlight(g) == {m \in net : m.owner = <<"gen", g>> /\ m.request.op \in RenderOps}

\* every entry of the plan's list is a VariationSpec object (its prompt a
\* string, possibly empty, or absent)
IsVariationSpec(entry) ==
  entry.type = "object" /\ entry.val.modifiedPrompt.type \in {"string", "undefined"}
PlanOfSpecs(f) ==
  /\ f.plan.type = "object" /\ f.plan.val.variations.type = "array"
  /\ \A i \in 1..Len(Variations(f)) : IsVariationSpec(Variations(f)[i])

\* C1 (one generator run): the k-th variation event belongs to the k-th plan
\* entry and is an error variation exactly when the k-th render call failed
IsolatedFailures(f) ==
  LET V == VariationEvents(f) IN
  /\ Len(V) = Len(f.outcomes)
  /\ Len(V) <= Len(Variations(f))
  /\ \A k \in 1..Len(V) :
       LET v == V[k].variation IN
       /\ v.title = Variations(f)[k].val.title
       /\ v.description = Variations(f)[k].val.description
       /\ v.isError <=> ~f.outcomes[k]
       /\ v.isError => /\ v.errorMessage # NoError /\ v.imageUrl = <<>>
                       /\ v.retryPayload # Undefined
       /\ ~v.isError => /\ v.imageUrl # <<>> /\ v.imageUrl[2] = "IMG"
                        /\ v.errorMessage = NoError /\ v.retryPayload = Undefined
  /\ f.pc # "failed"
  /\ f.pc = "done" => Len(V) = Len(Variations(f))

\* C1: for every valid plan of N VariationSpecs and every subset of failing
\* render calls, both generators emit N variation events in plan order, the
\* k-th an error variation (message, retry payload) iff the k-th render call
\* failed and a success variation with an image otherwise; a failing render
\* call neither stops the later ones nor makes the generator fail.
C1_IsolatedFailures ==
  \A g \in Gens :
    (EventsOf(gen[g], "plan") # <<>> /\ PlanOfSpecs(gen[g])) => IsolatedFailures(gen[g])

\* a run of three variations whose second render call alone failed
C1_Witness ==
  \E g \in Gens :
    /\ gen[g].pc = "done" /\ gen[g].outcomes = <<TRUE, FALSE, TRUE>>
    /\ Len(VariationEvents(gen[g])) = 3

\* the plan fails the check the specification states: no conversational text,
\* or variations that are no list or an empty list
RejectedPlan(plan) ==
  \/ plan.val.textResponse.type # "string" \/ plan.val.textResponse.val = <<>>
  \/ plan.val.variations.type # "array" \/ plan.val.variations.val = <<>>

\* C2: when the parsed plan has empty or missing text, or variations that are
\* not a list or an empty list, the generator fails with an error and has
\* emitted no plan event and no variation event and issued no render call.
C2_InvalidPlanRejected ==
  \A g \in Gens :
    (gen[g].plan # Undefined /\ RejectedPlan(gen[g].plan)) =>
      /\ gen[g].pc = "failed" /\ gen[g].error = InvalidPlanMsg
      /\ EventsOf(gen[g], "plan") = <<>>
      /\ VariationEvents(gen[g]) = <<>>
      /\ gen[g].renderCalls = 0 /\ gen[g].outcomes = <<>>
      /\ RendersInFlight(g) = {}

\* a generator that failed on a plan with text and an empty variations list,
\* and one that failed on a plan without text
C2_Witness ==
  \E g \in Gens :
    /\ gen[g].pc = "failed" /\ gen[g].plan # Undefined
    /\ gen[g].plan.val.variations = Arr(<<>>)
    /\ Truthy(gen[g].plan.val.textResponse)

\* the prompt is no string, or empty, or white space only
BadPrompt(prompt) ==
  prompt.type # "string" \/ \A k \in 1..Len(prompt.val) : prompt.val[k] = " "
\* the image list is missing or empty
BadImages(images) == images.type # "array" \/ images.val = <<>>

\* C4: every invocation of the edit render path with an empty, blank or
\* non-string prompt, or with an empty or missing image list, fails with a
\* precondition error, creates no API client and issues no remote call; this
\* holds for retryImageGeneration and for the loop of generateImageEdits.
C4_EditPreconditions ==
  /\ \A r \in Calls :
       (rcall[r].fn = "retryImageGeneration"
          /\ (BadPrompt(rcall[r].prompt) \/ BadImages(rcall[r].images))) =>
         /\ rcall[r].pc = "threw"
         /\ rcall[r].error = (IF BadPrompt(rcall[r].prompt) THEN PromptRequiredMsg
                              ELSE ImageRequiredMsg)
         /\ rcall[r].calls = 0
         /\ ~ai
         /\ \A m \in net : m.owner # <<"retry", r>>
  /\ \A g \in Gens :
       (gen[g].fn = "generateImageEdits" /\ BadImages(gen[g].images)) =>
         /\ gen[g].renderCalls = 0 /\ RendersInFlight(g) = {}
         /\ \A k \in 1..Len(VariationEvents(gen[g])) :
              LET v == VariationEvents(gen[g])[k].variation IN
              v.isError /\ v.errorMessage = ImageRequiredMsg

\* a call of retryImageGeneration with a blank prompt has thrown while the key
\* is set, and no client exists
C4_Witness ==
  \E r \in Calls :
    /\ rcall[r].fn = "retryImageGeneration" /\ rcall[r].pc = "threw"
    /\ rcall[r].prompt = Str(<<" ">>) /\ rcall[r].images = Arr(<<SourceImage>>)
    /\ apiKey /\ ~ai /\ net = {}

\* C5: within one generator run the render calls are issued one after another
\* in plan order: at most one is in flight, and the call for variation i is in
\* flight only when the events of variations 1..i-1 have been emitted and
\* taken by the consumer.
C5_SequentialRenders ==
  \A g \in Gens :
    /\ Cardinality(RendersInFlight(g)) <= 1
    /\ gen[g].renderCalls <= Len(VariationEvents(gen[g])) + 1
    /\ RendersInFlight(g) # {} =>
         /\ gen[g].pc = "awaitRender"
         /\ Len(VariationEvents(gen[g])) = gen[g].i - 1
         /\ ~Suspended(gen[g])
         /\ \A m \in RendersInFlight(g) :
              m.request.prompt =
                promptForGeneration(gen[g].fn, Variations(gen[g])[gen[g].i],
                                    gen[g].userPrompt).prompt

\* the render call of the third variation is in flight after one success and
\* one failure
C5_Witness ==
  \E g \in Gens :
    /\ RendersInFlight(g) # {} /\ gen[g].i = 3 /\ gen[g].outcomes = <<TRUE, FALSE>>

\* C6: a run of generateNewImages on a valid plan of N variations emits one
\* progress event, one plan event and N variation events, N + 2 in all,
\* whatever the render calls answer.
C6_NewImagesStream ==
  \A g \in Gens :
    (gen[g].fn = "generateNewImages" /\ gen[g].pc = "done") =>
      /\ Len(EventsOf(gen[g], "progress")) = 1
      /\ Len(EventsOf(gen[g], "plan")) = 1
      /\ Len(VariationEvents(gen[g])) = Len(Variations(gen[g]))
      /\ Len(gen[g].events) = Len(Variations(gen[g])) + 2
      /\ Len(gen[g].outcomes) = Len(Variations(gen[g]))

\* a finished run of three variations with a failed render call: five events
C6_Witness ==
  \E g \in Gens :
    /\ gen[g].fn = "generateNewImages" /\ gen[g].pc = "done"
    /\ Len(Variations(gen[g])) = 3 /\ Len(gen[g].events) = 5
    /\ gen[g].useWebSearch /\ FALSE \in {gen[g].outcomes[k] : k \in 1..3}

\* s occurs in t as a run of consecutive chunks
Contains(t, s) == \E k \in 0..(Len(t) - Len(s)) : SubSeq(t, k + 1, k + Len(s)) = s

\* C10: whenever the prompt of a planned variation is empty or absent, the
\* prompt sent to the render call is built from the user's prompt and the
\* variation's title, on the new-image path and on the edit path.
C10_FallbackPrompt ==
  \A g \in Gens : \A m \in RendersInFlight(g) :
    LET variation == Variations(gen[g])[gen[g].i] IN
    (variation.type = "object"
       /\ variation.val.modifiedPrompt \in {Undefined, Str(<<>>)}) =>
      /\ m.request.prompt.type = "string"
      /\ Contains(m.request.prompt.val, gen[g].userPrompt.val)
      /\ Contains(m.request.prompt.val, variation.val.title.val)

\* the displayed records that carry the id
WithId(a, id) == {v \in Displayed(a) : v.id = id}

\* the handler of retry r publishes in this step (its loading state, or its result)
RetryStarts(r) == retry[r].pc = "idle" /\ retry'[r].pc = "awaiting"
RetryEnds(r) == retry[r].pc = "awaiting" /\ retry'[r].pc = "done"

\* album b is album a but for the records that carry the id
SameExcept(a, b, id) ==
  /\ Len(b.galleryImages) = Len(a.galleryImages)
  /\ \A k \in 1..Len(a.galleryImages) :
       a.galleryImages[k].id # id => b.galleryImages[k] = a.galleryImages[k]
  /\ Len(b.chatHistory) = Len(a.chatHistory)
  /\ \A k \in 1..Len(a.chatHistory) :
       LET m == a.chatHistory[k]  n == b.chatHistory[k] IN
       /\ [n EXCEPT !.variations = Undefined] = [m EXCEPT !.variations = Undefined]
       /\ n.variations.type = m.variations.type
       /\ m.variations.type = "array" =>
            /\ Len(n.variations.val) = Len(m.variations.val)
            /\ \A j \in 1..Len(m.variations.val) :
                 m.variations.val[j].id # id => n.variations.val[j] = m.variations.val[j]

\* C3: every album state a variation retry publishes (loading, then success or
\* error) differs from the album published just before only in the retried
\* variation, which keeps its id, title and description, whatever other retry
\* or turn runs at the same time.
C3_OnlyRetriedReplaced ==
  [][\A r \in Calls :
       (RetryStarts(r) \/ RetryEnds(r)) =>
         LET failedVariation == retry'[r].failedVariation IN
         /\ SameExcept(album, album', failedVariation.id)
         /\ \A w \in WithId(album', failedVariation.id) :
              w.title = failedVariation.title /\ w.description = failedVariation.description]_vars

\* a record is success (an image, no payload), error (a payload, no image) or
\* loading (no image)
WellFormedRecord(v) ==
  /\ ~(v.isLoading /\ v.isError)
  /\ v.isError => v.retryPayload # Undefined /\ v.imageUrl = <<>> /\ v.errorMessage # NoError
  /\ v.isLoading => v.imageUrl = <<>>
  /\ (~v.isLoading /\ ~v.isError) => v.imageUrl # <<>> /\ v.retryPayload = Undefined

Producer(v) == gen[v.id[2]]

\* C8: a variation retry calls the entry point of the render path that
\* produced the failure, with the captured inputs (edit: the source images and
\* the prompt; generate: the prompt and the aspect ratio); it issues exactly
\* one render call and no plan call; its result replaces the error state in
\* place: success by a success record, failure by an updated error record.
C8_RetrySamePath ==
  /\ [](\A r \in Calls :
          retry[r].pc # "idle" =>
            LET v == retry[r].failedVariation IN
            /\ rcall[r].fn = (IF Producer(v).fn = "generateImageEdits"
                              THEN "retryImageGeneration" ELSE "retryNewImageGeneration")
            /\ rcall[r].prompt = v.retryPayload.prompt
            /\ Producer(v).fn = "generateImageEdits" =>
                 rcall[r].images = Producer(v).images /\ ~BadImages(rcall[r].images)
            /\ Producer(v).fn = "generateNewImages" =>
                 rcall[r].aspectRatio = Producer(v).aspectRatio
            /\ rcall[r].calls = 1
            /\ \A m \in net :
                 m.owner = <<"retry", r>> =>
                   /\ m.request.op = (IF Producer(v).fn = "generateImageEdits"
                                      THEN "editContent" ELSE "generateImages")
                   /\ m.request.prompt = v.retryPayload.prompt
                   /\ rcall[r].pc = "awaiting")
  /\ [][\A r \in Calls :
          /\ RetryStarts(r) =>
               /\ Cardinality({m \in net' : m.owner = <<"retry", r>>}) = 1
               /\ {m \in net' : m.request.op = "plan"} = {m \in net : m.request.op = "plan"}
               /\ \A g \in Gens : gen'[g].planCalls = gen[g].planCalls
          /\ RetryEnds(r) =>
               LET v == retry[r].failedVariation
                   a == retry[r].album
               IN /\ net' = net /\ gen' = gen
                  /\ Len(album'.galleryImages) = Len(a.galleryImages)
                  /\ \A k \in 1..Len(a.galleryImages) :
                       a.galleryImages[k].id = v.id =>
                         LET w == album'.galleryImages[k] IN
                         /\ w.id = v.id
                         /\ rcall[r].pc = "returned" =>
                              /\ ~w.isError /\ ~w.isLoading
                              /\ w.imageUrl = <<(IF Producer(v).fn = "generateImageEdits"
                                                 THEN Producer(v).images.val[1].mimeType
                                                 ELSE "image/png"), rcall[r].image>>
                         /\ rcall[r].pc = "threw" =>
                              /\ w.isError /\ ~w.isLoading
                              /\ w.errorMessage = rcall[r].error]_vars

\* a retried edit-path failure and a retried generate-path failure, each ended
C8_WitnessEdit ==
  \E r \in Calls :
    /\ retry[r].pc = "done" /\ rcall[r].fn = "retryImageGeneration"
    /\ rcall[r].pc = "returned"
    /\ \E w \in WithId(album, retry[r].failedVariation.id) : ~w.isError /\ ~w.isLoading

\* C9: the retry payload is discarded on a successful retry and only then:
\* after a successful retry the variation has no payload and is neither
\* loading nor error; while the retry runs and after a failed retry the
\* variation carries its payload unchanged, and after a failed retry it is in
\* error state, so that it can be retried again.
C9_PayloadDiscardedOnSuccess ==
  [][\A r \in Calls :
       /\ RetryStarts(r) =>
            LET v == retry'[r].failedVariation IN
            \A w \in WithId(album', v.id) : w.retryPayload = v.retryPayload
       /\ RetryEnds(r) =>
            LET v == retry[r].failedVariation IN
            /\ WithId(album', v.id) # {}
            /\ \A w \in WithId(album', v.id) :
                 IF rcall[r].pc = "returned"
                 THEN w.retryPayload = Undefined /\ ~w.isLoading /\ ~w.isError
                 ELSE /\ w.retryPayload = v.retryPayload /\ w.retryPayload # Undefined
                      /\ w.isError /\ ~w.isLoading /\ Retriable(w)]_vars

\* a variation whose retry failed is being retried a second time
C9_Witness ==
  /\ retry[1].pc = "done" /\ rcall[1].pc = "threw"
  /\ retry[2].pc = "awaiting"
  /\ retry[2].failedVariation.id = retry[1].failedVariation.id
  /\ retry[2].failedVariation.retryPayload = retry[1].failedVariation.retryPayload

\* the call handleRetryVariation makes for a payload (lines 885-894): the error
\* it throws before its remote call, or the request it sends
retryCallOf(payload) ==
  IF retryPath(payload) = "retryImageGeneration"
  THEN retryImageGeneration(payload.images, payload.prompt)
  ELSE retryNewImageGeneration(payload.prompt, Or(payload.aspectRatio, Str(<<"1:1">>)))

\* the generator g yields an error variation in this step
YieldsError(g) ==
  /\ Len(gen'[g].events) = Len(gen[g].events) + 1
  /\ gen'[g].events[Len(gen'[g].events)].type = "variation"
  /\ gen'[g].events[Len(gen'[g].events)].variation.isError

\* C11: the retry payload of an error variation that reports a failed render
\* call holds the inputs of that call: the prompt that was sent (the fallback
\* prompt when one was substituted), the source images on the edit path, the
\* aspect ratio on the generate path; the call a retry makes from the payload
\* sends the failed request again.
C11_PayloadIsFailedCall ==
  [][\A g \in Gens :
       (YieldsError(g) /\ gen[g].pc = "awaitRender") =>
         LET payload == gen'[g].events[Len(gen'[g].events)].variation.retryPayload IN
         \E m \in net \ net' :
           /\ m.owner = <<"gen", g>>
           /\ payload.prompt = m.request.prompt
           /\ gen[g].fn = "generateImageEdits" =>
                payload.images = m.request.images /\ payload.images = gen[g].images
           /\ gen[g].fn = "generateNewImages" =>
                payload.aspectRatio = m.request.aspectRatio
           /\ retryCallOf(payload).error = NoError
           /\ retryCallOf(payload).request = m.request]_vars

\* generateImageEdits has yielded an error variation for a render call that was
\* sent with the fallback prompt, and the payload holds that fallback prompt
C11_Witness ==
  \E g \in Gens : \E k \in 1..Len(gen[g].events) :
    LET e == gen[g].events[k] IN
    /\ gen[g].fn = "generateImageEdits"
    /\ e.type = "variation" /\ e.variation.isError
    /\ e.variation.errorMessage = NoCandidatesMsg
    /\ e.variation.retryPayload.images = Arr(<<SourceImage>>)
    /\ Contains(e.variation.retryPayload.prompt.val, <<", in the style of: ">>)

\* the generator of turn t has failed at its plan: the plan call was made and
\* no plan event came out of it
PlanFailed(t) ==
  /\ gen[t].pc = "failed" /\ gen[t].planCalls = 1
  /\ EventsOf(gen[t], "plan") = <<>>

\* the turn t publishes its end in this step
TurnEnds(t) == turn[t].pc = "streaming" /\ turn'[t].pc = "done"

ErrorEntries(history) == SelectSeq(history, LAMBDA msg : msg.isError)

\* C12: when plan generation fails (the plan call is rejected, the answer has
\* no JSON, the JSON does not parse, or the plan is invalid) the turn ends
\* without a render call, and the album it publishes has no loading chat entry,
\* no loading placeholder in the gallery, and a chat history that is the
\* history before the turn, the user's entry and one error-flagged assistant
\* entry with the error message and the originalRequest of the turn (prompt,
\* image files, web-search flag, aspect ratio).
C12_PlanFailureAbortsTurn ==
  [][\A t \in Gens :
       (TurnEnds(t) /\ PlanFailed(t)) =>
         LET history == album'.chatHistory
             before == turn[t].album.chatHistory
             last == history[Len(history)]
         IN /\ gen[t].renderCalls = 0
            /\ \A m \in net : m.owner = <<"gen", t>> => m.request.op \notin RenderOps
            /\ VariationEvents(gen[t]) = <<>>
            /\ \A k \in 1..Len(history) : ~history[k].isLoading
            /\ \A k \in 1..Len(album'.galleryImages) : ~album'.galleryImages[k].isLoading
            /\ Len(history) = Len(before) + 2
            /\ SubSeq(history, 1, Len(before)) = before
            /\ history[Len(before) + 1].role = "user"
            /\ history[Len(before) + 1].text = turn[t].prompt
            /\ Len(ErrorEntries(history)) = Len(ErrorEntries(before)) + 1
            /\ last.isError /\ last.role = "assistant"
            /\ last.text = Str(gen[t].error) /\ gen[t].error # NoError
            /\ last.originalRequest # Undefined
            /\ last.originalRequest.prompt = turn[t].prompt
            /\ last.originalRequest.imageFiles = turn[t].imageFiles
            /\ last.originalRequest.useWebSearch = turn[t].useWebSearch
            /\ last.originalRequest.aspectRatio = turn[t].aspectRatio]_vars

\* a turn with an uploaded file has ended on an invalid plan, and the chat shows
\* the error entry
C12_Witness ==
  \E t \in Gens :
    /\ turn[t].pc = "done" /\ PlanFailed(t) /\ gen[t].error = InvalidPlanMsg
    /\ turn[t].imageFiles # <<>> /\ turn[t].useWebSearch
    /\ album.chatHistory # <<>>
    /\ album.chatHistory[Len(album.chatHistory)].isError
    /\ album.chatHistory[Len(album.chatHistory)].text = Str(InvalidPlanMsg)
    /\ album.galleryImages = <<>>

\* C13: nothing is retried automatically.  A turn's generator makes at most
\* one plan call, and one render call per planned variation whatever the
\* outcomes (N when it has ended); a plan request is sent only as the one plan
\* call of a turn the user started, and a render request only as the first
\* call for the next variation of a turn or as the call of a variation retry
\* the user started.
C13_NoAutomaticRetry ==
  /\ [](\A g \in Gens :
          /\ gen[g].planCalls <= 1
          /\ gen[g].pc \in {"awaitRender", "yieldedVariation"} =>
               gen[g].renderCalls = gen[g].i
          /\ gen[g].pc = "done" =>
               /\ gen[g].planCalls = 1
               /\ gen[g].renderCalls = Len(Variations(gen[g]))
               /\ Len(gen[g].outcomes) = Len(Variations(gen[g]))
          /\ \A r \in Calls : rcall[r].calls <= 1)
  /\ [][\A m \in net' \ net :
          /\ m.request.op = "plan" =>
               \E g \in Gens :
                 /\ m.owner = <<"gen", g>>
                 /\ gen[g].planCalls = 0 /\ gen'[g].planCalls = 1
                 /\ turn'[g].pc = "streaming" /\ turn'[g].prompt # Undefined
          /\ m.request.op \in RenderOps =>
               \/ \E g \in Gens :
                    /\ m.owner = <<"gen", g>>
                    /\ gen'[g].renderCalls = gen[g].renderCalls + 1
                    /\ gen'[g].i = gen[g].renderCalls + 1
               \/ \E r \in Calls :
                    /\ m.owner = <<"retry", r>>
                    /\ RetryStarts(r) /\ rcall'[r].calls = 1]_vars

\* a turn of three variations has ended with all three render calls failed,
\* after one plan call and three render calls
C13_Witness ==
  \E g \in Gens :
    /\ gen[g].pc = "done" /\ turn[g].pc = "done"
    /\ gen[g].outcomes = <<FALSE, FALSE, FALSE>>
    /\ gen[g].planCalls = 1 /\ gen[g].renderCalls = 3
    /\ \A r \in Calls : retry[r].pc = "idle"

\* C14: while the credential is absent no client exists and no remote call is
\* in flight; every generator run fails with the missing-credential error
\* without an event and without a plan call; retryNewImageGeneration, and
\* retryImageGeneration once its preconditions pass, throw that error without
\* a remote call; so does every later call.  A client, once created, stays:
\* it is created only when none exists, and with it no call fails for the
\* credential.
C14_MissingCredential ==
  /\ [](~apiKey =>
          /\ ~ai /\ net = {} /\ getAiClient.threw
          /\ \A g \in Gens :
               gen[g].pc # "idle" =>
                 /\ gen[g].pc = "failed" /\ gen[g].error = ApiKeyMsg
                 /\ gen[g].events = <<>>
                 /\ gen[g].planCalls = 0 /\ gen[g].renderCalls = 0
          /\ \A r \in Calls :
               rcall[r].pc # "idle" =>
                 /\ rcall[r].pc = "threw" /\ rcall[r].calls = 0
                 /\ rcall[r].error =
                      IF rcall[r].fn = "retryNewImageGeneration" THEN ApiKeyMsg
                      ELSE IF BadPrompt(rcall[r].prompt) THEN PromptRequiredMsg
                      ELSE IF BadImages(rcall[r].images) THEN ImageRequiredMsg
                      ELSE ApiKeyMsg)
  /\ [](apiKey =>
          /\ \A g \in Gens : gen[g].error # ApiKeyMsg
          /\ \A r \in Calls : rcall[r].error # ApiKeyMsg
          /\ ~getAiClient.threw /\ getAiClient.ai)
  /\ [][(ai => ai') /\ (ai' # ai => apiKey)]_vars

\* without the credential, a generator run and two later calls of the retry
\* entry points have each failed with the missing-credential error
C14_Witness ==
  /\ ~apiKey
  /\ \E g \in Gens : gen[g].pc = "failed" /\ gen[g].error = ApiKeyMsg
  /\ rcall[1].fn = "retryNewImageGeneration" /\ rcall[1].error = ApiKeyMsg
  /\ rcall[2].fn = "retryImageGeneration" /\ rcall[2].error = ApiKeyMsg

\* the ids of the chat entries and of the gallery entries of an album
ChatIds(a) == {a.chatHistory[k].id : k \in 1..Len(a.chatHistory)}
GalleryIds(a) == {a.galleryImages[k].id : k \in 1..Len(a.galleryImages)}

\* C15: the published album is never rolled back: the user entry of a turn,
\* once in the chat, and a completed variation of a turn, once in the gallery,
\* are in every album published afterwards (by the turn, by the reference-image
\* callback it started, or by a variation retry).
C15_NeverRolledBack ==
  [][\A t \in Gens :
       /\ MessageId(t, 0) \in ChatIds(album) => MessageId(t, 0) \in ChatIds(album')
       /\ \A i \in 1..MaxVariations :
            VariationId(t, i) \in GalleryIds(album) =>
              VariationId(t, i) \in GalleryIds(album')]_vars

\* the text has an opening fence, a later fence, and between them (after the
\* word json) something that is not white space
HasFencedContent(text) ==
  \E k \in 1..Len(text) : \E c \in (k + 2)..Len(text) :
    /\ text[k] = Fence /\ text[k + 1] = Json /\ text[c] = Fence
    /\ \E j \in (k + 2)..(c - 1) : text[j] # " "

\* the text has an opening fence and a later fence
HasFencedBlock(text) ==
  \E k \in 1..Len(text) : \E c \in (k + 2)..Len(text) :
    text[k] = Fence /\ text[k + 1] = Json /\ text[c] = Fence

Has(text, c) == \E k \in 1..Len(text) : text[k] = c

\* C16: for a text with neither an opening brace nor an opening bracket (and
\* no fenced block with content) extractJson throws an error whose message
\* contains the whole text, and returns nothing.
C16_NoBracketFails ==
  (extracted.called /\ ~Has(reply.text, "{") /\ ~Has(reply.text, "[")
     /\ ~HasFencedContent(reply.text)) =>
    /\ extracted.threw /\ extracted.value = <<>>
    /\ Len(extracted.message) = Len(reply.text) + 2
    /\ SubSeq(extracted.message, 2, Len(reply.text) + 1) = reply.text

\* extractJson has thrown for a text that is an empty fenced block between words
C16_Witness ==
  /\ extracted.called /\ extracted.threw
  /\ reply.text = <<"x", Fence, Json, Fence>>

\* C17: for a text that wraps a JSON value in a fenced block, extractJson
\* returns the contents of the fence, trimmed, whatever stands before and
\* after the fence and whatever the JSON value is.
C17_FencedContents ==
  (extracted.called /\ reply.json # <<>>) =>
    ~extracted.threw /\ extracted.value = reply.json

\* the first opening delimiter of a text, and the kind that closes it
FirstOpening(text) == IndexFrom(text, {"{", "["}, 1)
ClosingOf(c) == IF c = "{" THEN "}" ELSE "]"

\* C18 as stated: without a fenced block, extractJson returns the text from
\* its first opening delimiter to the last closing delimiter of the matching
\* kind, and throws when there is no such closing delimiter or it stands
\* before the opening one.
C18_MatchingClosing ==
  (extracted.called /\ ~HasFencedBlock(reply.text) /\ FirstOpening(reply.text) # 0) =>
    LET start == FirstOpening(reply.text)
        end == LastIndexFrom(reply.text, {ClosingOf(reply.text[start])}, Len(reply.text))
    IN IF end = 0 \/ end < start THEN extracted.threw
       ELSE ~extracted.threw /\ extracted.value = SubSeq(reply.text, start, end)

\* C18 as amended: without a fenced block, extractJson returns the text from
\* its first opening delimiter to the last closing delimiter of either kind
\* (brace or bracket, matching the opening one or not), and throws when there
\* is no closing delimiter or the last one stands before the opening one.
C18_LastClosing ==
  (extracted.called /\ ~HasFencedBlock(reply.text) /\ FirstOpening(reply.text) # 0) =>
    LET start == FirstOpening(reply.text)
        end == LastIndexFrom(reply.text, {"}", "]"}, Len(reply.text))
    IN IF end = 0 \/ end < start
       THEN extracted.threw /\ extracted.value = <<>>
       ELSE ~extracted.threw /\ extracted.value = SubSeq(reply.text, start, end)

\* extractJson has returned a span that opens with a brace and ends with a
\* bracket that stands after the closing brace
C18_Witness ==
  /\ extracted.called /\ ~extracted.threw
  /\ reply.text = <<"x", "{", "}", "]">>
  /\ extracted.value = <<"{", "}", "]">>

\* the retry calls that have ended after the remote call answered
Answered(r) == rcall[r].pc \in {"returned", "threw"} /\ rcall[r].response # Undefined

\* the answer has a first candidate with content parts
HasContentParts(response) ==
  Len(response.candidates) > 0 /\ response.candidates[1].hasParts

\* C19: when the answer to an edit call has a first candidate with content
\* parts, the call returns exactly when some part carries inline data, and
\* then returns the data of such a part, whatever text parts there are and
\* whatever the order; when no part carries inline data it throws, with a
\* message that contains the text of a text part if there is one and the
\* generic no-image message otherwise.
C19_PartsScan ==
  \A r \in Calls :
    (Answered(r) /\ rcall[r].fn = "retryImageGeneration"
       /\ HasContentParts(rcall[r].response)) =>
      LET parts == rcall[r].response.candidates[1].parts
          images == {parts[i].data : i \in 1..Len(parts)} \ {""}
          texts == {parts[i].text : i \in 1..Len(parts)} \ {""}
          message == rcall[r].error
      IN /\ (rcall[r].pc = "returned") <=> (images # {})
         /\ rcall[r].pc = "returned" => rcall[r].image \in images
         /\ rcall[r].pc = "threw" =>
              /\ rcall[r].image = ""
              /\ IF texts # {}
                 THEN \E k \in 1..Len(message) : message[k] \in texts
                 ELSE message = NoImageMsg

\* an edit call has returned the image of an answer whose parts are a text,
\* then an image, then another text
C19_Witness ==
  \E r \in Calls :
    /\ rcall[r].fn = "retryImageGeneration" /\ rcall[r].pc = "returned"
    /\ rcall[r].response # Undefined
    /\ rcall[r].response.candidates =
         <<[hasParts |-> TRUE,
            parts |-> <<[data |-> "", text |-> "T"], [data |-> "IMG2", text |-> ""],
                        [data |-> "", text |-> "T2"]>>]>>
    /\ rcall[r].image = "IMG2"

\* the answer holds nothing usable: no candidate or a first candidate without
\* content parts on the edit path, no generated image on the generate path
NothingUsable(fn, response) ==
  CASE fn = "retryImageGeneration" -> ~HasContentParts(response)
    [] fn = "retryNewImageGeneration" -> Len(response.generatedImages) = 0
    [] OTHER -> FALSE

\* C20: when the answer holds nothing usable the render call throws and
\* returns no image, and when the answer carries a block reason the message
\* of the error contains that block reason.
C20_NothingUsable ==
  \A r \in Calls :
    (Answered(r) /\ NothingUsable(rcall[r].fn, rcall[r].response)) =>
      /\ rcall[r].pc = "threw" /\ rcall[r].image = ""
      /\ rcall[r].response.blockReason # "" =>
           \E k \in 1..Len(rcall[r].error) : rcall[r].error[k] = rcall[r].response.blockReason

\* a step of a generator (the frame after it, the requests sent, the client)
\* with the web-search flag of the frame put aside
Unflagged(step) ==
  [frame |-> [step.frame EXCEPT !.useWebSearch = FALSE], sent |-> step.sent, ai |-> step.ai]
Still(f) == [frame |-> f, sent |-> {}, ai |-> ai]

\* the frame is at a point where Resume applies
Resumable(f) ==
  f.pc \in {"search1", "search2", "yieldedPlan", "yieldedProgress", "yieldedVariation"}

\* every step the generator can take from frame f is the step it takes from
\* frame h: its start with the arguments of the frame, its resumption, and its
\* continuation on every answer to the request in flight
SameSteps(g, f, h) ==
  /\ Unflagged(Begin(g, [IdleGen EXCEPT !.fn = f.fn, !.userPrompt = f.userPrompt,
                           !.aspectRatio = f.aspectRatio, !.useWebSearch = f.useWebSearch]))
       = Unflagged(Begin(g, [IdleGen EXCEPT !.fn = h.fn, !.userPrompt = h.userPrompt,
                               !.aspectRatio = h.aspectRatio, !.useWebSearch = h.useWebSearch]))
  /\ Resumable(f) => Unflagged(Resume(g, f)) = Unflagged(Resume(g, h))
  /\ f.pc = "awaitPlan" =>
       \A response \in PlanResponses(EntryKinds) :
         Unflagged(Still(planReturned(f, response))) = Unflagged(Still(planReturned(h, response)))
  /\ f.pc = "awaitRender" =>
       \A m \in RendersInFlight(g) : \A response \in RenderResponses(m.request.op) :
         Unflagged(Still(renderReturned(g, f, m.request, response)))
           = Unflagged(Still(renderReturned(g, h, m.request, response)))

\* C23: in generateNewImages the useWebSearch argument has no effect.  At
\* every point of a run, the step the generator takes (the events it yields,
\* the requests it sends, on every answer) is the step it takes in the run
\* that differs only in useWebSearch; and its plan request carries the
\* response schema and no search tool.
C23_WebSearchIgnored ==
  \A g \in Gens :
    gen[g].fn = "generateNewImages" =>
      /\ SameSteps(g, gen[g], [gen[g] EXCEPT !.useWebSearch = ~@])
      /\ \A e \in 1..Len(gen[g].events) :
           gen[g].events[e] # Progress("Searching the web for inspiration...")
      /\ \A m \in net :
           (m.owner = <<"gen", g>> /\ m.request.op = "plan") =>
             m.request.schema /\ ~m.request.searchTool

\* generateNewImages, called with useWebSearch, has ended after a variation
C23_Witness ==
  \E g \in Gens :
    /\ gen[g].fn = "generateNewImages" /\ gen[g].useWebSearch
    /\ gen[g].pc = "done" /\ VariationEvents(gen[g]) # <<>>

\* the positions of the events of one type in the events a run has emitted
Positions(f, type) == {k \in 1..Len(f.events) : f.events[k].type = type}

Searching(f) == f.fn = "generateImageEdits" /\ f.useWebSearch

\* C24: a run that ends normally has emitted exactly one plan event, before
\* every variation event.  generateImageEdits with web search has emitted
\* exactly two progress events when its plan request is issued and emits one
\* more after the plan event; otherwise no progress event precedes the plan
\* event and exactly one follows it.
C24_EventOrder ==
  \A g \in Gens :
    LET f == gen[g]
        plans == Positions(f, "plan")
        progress == Positions(f, "progress")
    IN /\ \A v \in Positions(f, "variation") : \E p \in plans : p < v
       /\ f.pc = "awaitPlan" =>
            /\ plans = {}
            /\ Len(f.events) = Cardinality(progress)
            /\ Cardinality(progress) = IF Searching(f) THEN 2 ELSE 0
       /\ f.pc = "done" =>
            /\ Cardinality(plans) = 1
            /\ \A p \in plans :
                 /\ Cardinality({k \in progress : k < p}) = IF Searching(f) THEN 2 ELSE 0
                 /\ Cardinality({k \in progress : k > p}) = 1

\* generateImageEdits with web search has ended normally after two variations
C24_Witness ==
  \E g \in Gens :
    /\ Searching(gen[g]) /\ gen[g].pc = "done"
    /\ Cardinality(Positions(gen[g], "variation")) = 2
    /\ Cardinality(Positions(gen[g], "progress")) = 3

\* C25: once a run has emitted its plan event it does not end with an error,
\* whatever the entries of the plan and the outcomes of the render calls, and
\* a run that has ended has emitted one variation event per entry.
C25_NoErrorAfterPlan ==
  \A g \in Gens :
    /\ gen[g].pc = "failed" => Positions(gen[g], "plan") = {}
    /\ gen[g].pc = "done" =>
         Cardinality(Positions(gen[g], "variation")) = Len(Variations(gen[g]))

\* C22 (one call): editImageWithMask and applyRepositionEdit throw when the
\* answer has no candidate, when its first candidate has no content parts or
\* when no part carries inline data, and otherwise return the inline data of
\* all parts of the first candidate, in part order; segmentObjectsInImage
\* returns the objects list of the parsed answer, or an empty list when the
\* parsed answer has no objects field.
AuxContract(f) ==
  LET response == f.response IN
  /\ f.fn \in ImageOps =>
       LET usable == HasContentParts(response)
           parts == response.candidates[1].parts
           carrying == IF usable THEN {k \in 1..Len(parts) : parts[k].data # ""} ELSE {}
       IN /\ f.pc = "threw" <=> carrying = {}
          /\ f.pc = "threw" => f.returned = Undefined
          /\ f.pc = "returned" =>
               /\ f.returned.type = "array" /\ Len(f.returned.val) = Cardinality(carrying)
               /\ Len(f.returned.val) > 0
               /\ \A j \in 1..Len(f.returned.val) :
                    \E k \in carrying :
                      /\ f.returned.val[j] = parts[k].data
                      /\ Cardinality({i \in carrying : i < k}) = j - 1
  /\ (f.fn = "segmentObjectsInImage" /\ response.kind = "json"
        /\ response.result.type = "object") =>
       /\ response.result.val.objects.type = "array" =>
            f.pc = "returned" /\ f.returned = response.result.val.objects
       /\ response.result.val.objects = Undefined =>
            f.pc = "returned" /\ f.returned = Arr(<<>>)

C22_AuxiliaryCalls ==
  \A r \in Calls : (Answered(r) /\ rcall[r].fn \in AuxOps) => AuxContract(rcall[r])

\* editImageWithMask has returned the two images of an answer whose parts are
\* an image, a text and another image
C22_Witness ==
  \E r \in Calls :
    /\ rcall[r].fn = "editImageWithMask" /\ rcall[r].pc = "returned"
    /\ rcall[r].response # Undefined
    /\ rcall[r].response.candidates[1].parts =
         <<[data |-> "IMG2", text |-> ""], [data |-> "", text |-> "T"],
           [data |-> "IMG", text |-> ""]>>
    /\ rcall[r].returned = Arr(<<"IMG2", "IMG">>)

\* how often a URL occurs in a sequence of URLs
Occurrences(urls, url) == Cardinality({k \in 1..Len(urls) : urls[k] = url})
IsBlobUrl(url) == url[1] = "blob:"

\* execute() has run to the end of its try block
TurnOver(f) == f.pc = "done" /\ f.currentAlbumState # NewAlbum

\* C21: every blob URL created for the uploaded files of a turn is revoked
\* exactly once, when the turn ends (with a result or with a plan failure) and
\* not before; a data URL (the reference image) is never revoked; and no URL
\* is created when execute() does not run (empty prompt, dialog not
\* confirmed).
C21_HandlesReleasedOnce ==
  /\ [](\A t \in Gens :
          LET f == turn[t] IN
          /\ \A k \in 1..Len(f.created) : IsBlobUrl(f.created[k])
          /\ \A k \in 1..Len(f.revoked) :
               IsBlobUrl(f.revoked[k]) /\ Occurrences(f.created, f.revoked[k]) = 1
          /\ \A k \in 1..Len(f.created) :
               Occurrences(f.revoked, f.created[k]) = IF TurnOver(f) THEN 1 ELSE 0
          /\ f.pc \notin {"idle", "devModal", "done"} => Len(f.created) = Len(f.imageFiles)
          /\ f.pc = "devModal" => f.created = <<>>)
  /\ [][\A t \in Gens :
          (turn[t].pc \in {"idle", "devModal"} /\ turn'[t].pc = "done") =>
            turn'[t].created = <<>> /\ turn'[t].revoked = <<>>]_vars

\* a turn with an uploaded file has ended with a result and its blob URL is
\* revoked
C21_Witness ==
  \E t \in Gens :
    /\ TurnOver(turn[t]) /\ gen[t].pc = "done"
    /\ turn[t].created = <<BlobUrl(t, 1)>> /\ turn[t].revoked = <<BlobUrl(t, 1)>>

\* the turn publishes its result: its generator has ended normally and the
\* plan was received
TurnSucceeds(t) ==
  /\ turn[t].pc = "streaming" /\ turn'[t].pc = "done"
  /\ gen[t].pc = "done" /\ turn[t].planData # Undefined

Emitted(t) ==
  [k \in 1..Len(VariationEvents(gen[t])) |-> VariationEvents(gen[t])[k].variation]

\* C26: when a turn completes with a plan of N variations, N >= 1, the gallery
\* it publishes is the gallery of before the turn followed by the N variations
\* its generator emitted, in emission order, and holds no loading placeholder.
C26_GalleryAfterTurn ==
  [][\A t \in Gens :
       TurnSucceeds(t) =>
         /\ album'.galleryImages = turn[t].album.galleryImages \o Emitted(t)
         /\ Len(Emitted(t)) = Len(Variations(gen[t]))
         /\ \A k \in 1..Len(album'.galleryImages) : ~album'.galleryImages[k].isLoading]_vars

\* the turn publishes an album (the file-read callback is not the turn)
TurnPublishes(t) ==
  /\ album' # album /\ turn'[t] # turn[t]
  /\ ~(turn[t].readerPending /\ ~turn'[t].readerPending)

PromptEntries(history, prompt) ==
  {k \in 1..Len(history) : history[k].role = "user" /\ history[k].text = prompt}

\* C27: after handleRetry, no chat history the retried turn publishes holds
\* the error entry that was retried, and it holds the user entry of the
\* request once.
C27_RetryRemovesError ==
  [][\A t \in Gens :
       (turn'[t].failedMessage # Undefined /\ TurnPublishes(t)) =>
         /\ \A k \in 1..Len(album'.chatHistory) :
              album'.chatHistory[k].id # turn'[t].failedMessage.id
         /\ Cardinality(PromptEntries(album'.chatHistory,
                                      turn'[t].failedMessage.originalRequest.prompt)) <= 1]_vars

\* reader.onloadend of the turn fires
CallbackFires(t) == turn[t].readerPending /\ ~turn'[t].readerPending

\* C28: for a turn started with uploaded files, once the file-read callback
\* has fired and the turn has ended, the reference image of the album is the
\* data URL of the first uploaded file; and the callback's update removes no
\* chat entry and no gallery entry.
C28_ReferenceUpdated ==
  /\ [](\A t \in Gens :
          (turn[t].imageFiles # <<>> /\ TurnOver(turn[t]) /\ ~turn[t].readerPending) =>
            album.referenceImageUrl = DataUrl(turn[t].imageFiles[1]))
  /\ [][\A t \in Gens :
          CallbackFires(t) =>
            /\ album'.referenceImageUrl = DataUrl(turn[t].imageFiles[1])
            /\ ChatIds(album) \subseteq ChatIds(album')
            /\ GalleryIds(album) \subseteq GalleryIds(album')]_vars

PlaceholderIds(t) == {placeholderVariations(t)[i].id : i \in 1..PlaceholderCount}

\* C29: the albums a turn publishes keep every gallery entry that existed
\* when the turn started, unchanged, also an entry that was loading then
\* because a variation retry was in flight; the entries the turn's last update
\* removes are placeholders of the turn.
C29_OwnPlaceholdersOnly ==
  [][\A t \in Gens :
       (TurnPublishes(t) /\ turn'[t].currentAlbumState # NewAlbum) =>
         LET before == turn'[t].album.galleryImages IN
         /\ Len(album'.galleryImages) >= Len(before)
         /\ SubSeq(album'.galleryImages, 1, Len(before)) = before
         /\ GalleryIds(album) \ GalleryIds(album') \subseteq PlaceholderIds(t)]_vars

\* the plan event of the turn's generator
PlanEventOf(t) == EventsOf(gen[t], "plan")[1]

=============================================================================
